---- MODULE Spec2Model ----
(***************************************************************************)
(* Property_Underwriter: the multi-source property-record merge engine,    *)
(* the provider cache, the cached-fetch wrapper and the aggregation        *)
(* orchestrator, modelled from src/src/services and src/src/core.          *)
(*                                                                         *)
(* Numbers are integers in thousandths (1000 is 1.0, 1004 is 1.004), so    *)
(* that the validators of PropertyData (non-negative, whole number, round  *)
(* to cents) act on them as they act on the Python floats.  An Optional    *)
(* value is the empty tuple (None) or a one-element tuple.                 *)
(***************************************************************************)
EXTENDS Integers, Sequences, FiniteSets, TLC

VARIABLES
    records,      \* merge: the list handed to merge_property_records
    merged,       \* merge: what merge_property_records(records) produced
    mpc,          \* merge: position of the merge scenario
    focus,        \* aggregate: the field the provider responses of this run report
    existing,     \* aggregate: the existing= argument (a snapshot or absent)
    primary_adapters,      \* DataAggregationService.primary_adapters (their names)
    open_data_providers,   \* DataAggregationService.open_data_providers (their names)
    marketplace_provider,  \* DataAggregationService.marketplace_provider
    aggregated,   \* aggregate: the running snapshot
    apc,          \* aggregate: "start", the tier of the running loop, "return",
                  \*            "returned" or "raised"
    step,         \* aggregate: number of the provider the loops are at
    last,         \* aggregate: what the last provider step fetched and applied
    now,          \* cache: the clock, datetime.now(UTC), in minutes
    ttl,          \* ProviderCache.ttl, in minutes
    store,        \* ProviderCache._store: key -> (expires_at, record)
    history,      \* cache: per key, the last set made on it and when
    call,         \* cache: the last cache operation and what it returned
    threads,      \* concurrent cache: per thread, the call it is in and its locals
    sets_started, \* concurrent cache: set calls begun
    sets_done,    \* concurrent cache: set calls completed
    last_done,    \* concurrent cache: the entry of the last completed set
    last_get,     \* concurrent cache: the last completed get and what it returned
    service_calls, \* repeated calls: the responses and the snapshot of each aggregate call
    db,           \* repository: the properties row and sources rows stored per address
    last_upsert,  \* repository: the last upsert_property call and the rows before it
    fetch_env,    \* fetch_property: the settings, the request address and use_mock_if_empty
    fetch_log,    \* fetch_property: what each call met and what it returned
    retry,        \* marketplace: the loop of _request_with_retry
    hud_cache,    \* HUD provider: _cache, per ZIP the expiry and the result
    hud_success,  \* HUD provider: per ZIP the last fetch that got benchmarks over HTTP
    hud_last      \* HUD provider: the last fetch_for_area call

mergeVars == <<records, merged, mpc>>

aggVars == <<focus, existing, primary_adapters, open_data_providers,
             marketplace_provider, aggregated, apc, step, last>>

cacheVars == <<now, ttl, store, history, call>>

concVars == <<threads, sets_started, sets_done, last_done, last_get>>

callVars == <<service_calls>>

repoVars == <<db, last_upsert>>

fetchVars == <<fetch_env, fetch_log>>

retryVars == <<retry>>

hudVars == <<hud_cache, hud_success, hud_last>>

vars == <<mergeVars, aggVars, cacheVars, concVars, callVars, repoVars, fetchVars,
          retryVars, hudVars>>

----------------------------------------------------------------------------
(* Bounds of the model *)

MaxRecords == 2

\* providers configured on the aggregation service, over the three tiers
MaxProviders == 3

----------------------------------------------------------------------------
(* Optional values *)

None == <<>>

Some(v) == <<v>>

----------------------------------------------------------------------------
(* ProviderName, priorities and reasons of merge_property_records *)

ProviderNames == {"MD_IMAP", "MASS_GIS", "RENTCAST", "ESTATED", "LEGACY", "CACHED"}

\* a provider string that ProviderName does not define
UnknownProvider == "ZILLOW"

AllProviders == ProviderNames \cup {UnknownProvider}

\* mutant: the commercial sources ahead of the assessors
assessor_priority_commercial_first ==
    <<"ESTATED", "RENTCAST", "MD_IMAP", "MASS_GIS", "LEGACY", "CACHED">>

assessor_priority == <<"MD_IMAP", "MASS_GIS", "ESTATED", "RENTCAST", "LEGACY", "CACHED">>

valuation_priority == <<"RENTCAST", "ESTATED", "MD_IMAP", "MASS_GIS", "LEGACY", "CACHED">>

reasons ==
    [p \in ProviderNames |->
        CASE p = "MD_IMAP"  -> "official assessor (MD)"
          [] p = "MASS_GIS" -> "official assessor (MA)"
          [] p = "RENTCAST" -> "live valuation / rent API"
          [] p = "ESTATED"  -> "nationwide enrichment"
          [] p = "LEGACY"   -> "legacy aggregated provider"
          [] p = "CACHED"   -> "cached snapshot"]

\* mutant: the lookup misses and always falls back to the default reason
reason_lookup_get_missed(reason_lookup, provider) == "prioritized provider"

\* reason_lookup.get(provider, "prioritized provider")
reason_lookup_get(reason_lookup, provider) ==
    IF provider \in DOMAIN reason_lookup THEN reason_lookup[provider]
    ELSE "prioritized provider"

provider_to_api_source ==
    [p \in ProviderNames |->
        CASE p = "MD_IMAP"  -> "md_imap"
          [] p = "MASS_GIS" -> "mass_gis"
          [] p = "RENTCAST" -> "rentcast"
          [] p = "ESTATED"  -> "estated"
          [] p = "LEGACY"   -> "mock"
          [] p = "CACHED"   -> "mock"]

----------------------------------------------------------------------------
(* Fields of NormalizedPropertyRecord / PropertyData *)

CountFields == {"beds", "baths"}

IntFields == {"sqft", "lot_sqft", "year_built"}

MoneyFields == {"market_value_estimate", "rent_estimate", "annual_taxes",
                "closing_cost_estimate"}

CanonicalFields == CountFields \cup IntFields \cup MoneyFields

CategoricalFields == {"land_use_code", "property_type", "owner_name"}

\* the order in which PropertyData and from_property_data list the fields
CanonicalOrder == <<"beds", "baths", "sqft", "lot_sqft", "year_built",
                    "market_value_estimate", "rent_estimate", "annual_taxes",
                    "closing_cost_estimate">>

\* the order of the _pick_value calls of merge_property_records
PickOrder == <<"beds", "baths", "sqft", "lot_sqft", "year_built",
               "market_value_estimate", "rent_estimate", "annual_taxes",
               "closing_cost_estimate",
               "land_use_code", "property_type", "owner_name">>

\* the priority list merge_property_records passes for each field
PriorityOf(field) ==
    IF field \in {"market_value_estimate", "rent_estimate", "closing_cost_estimate"}
    THEN valuation_priority
    ELSE assessor_priority

----------------------------------------------------------------------------
(* core/models.py: the validators of PropertyData *)

\* round(number, 2) on thousandths: to the nearest multiple of 10, ties to even
round2(n) ==
    LET q == n \div 10
        r == n % 10
    IN  IF r < 5 THEN 10 * q
        ELSE IF r > 5 THEN 10 * (q + 1)
        ELSE IF q % 2 = 0 THEN 10 * q ELSE 10 * (q + 1)

\* mutant: a missing number is coerced to zero instead of being passed through
coerce_number_zero_default(value, minimum, decimals) ==
    IF value = None THEN [ok |-> TRUE, value |-> Some(0)]
    ELSE IF minimum # None /\ value[1] < minimum[1] THEN [ok |-> FALSE]
    ELSE IF decimals = Some(2) THEN [ok |-> TRUE, value |-> Some(round2(value[1]))]
    ELSE [ok |-> TRUE, value |-> value]

\* _coerce_number: [ok |-> FALSE] stands for the ValueError it raises
coerce_number(value, minimum, decimals) ==
    IF value = None THEN [ok |-> TRUE, value |-> None]
    ELSE IF minimum # None /\ value[1] < minimum[1] THEN [ok |-> FALSE]
    ELSE IF decimals = Some(2) THEN [ok |-> TRUE, value |-> Some(round2(value[1]))]
    ELSE [ok |-> TRUE, value |-> value]

coerce_non_negative_float(value, decimals) ==
    coerce_number(value, Some(0), decimals)

coerce_non_negative_int(value) ==
    LET number == coerce_number(value, Some(0), None)
    IN  IF ~number.ok THEN number
        ELSE IF number.value = None THEN number
        ELSE IF number.value[1] % 1000 # 0 THEN [ok |-> FALSE]
        ELSE number

\* the field_validator that PropertyData runs on each field
validate_field(field, value) ==
    IF field \in CountFields THEN coerce_non_negative_float(value, None)
    ELSE IF field \in IntFields THEN coerce_non_negative_int(value)
    ELSE coerce_non_negative_float(value, Some(2))

\* PropertyData(...): DomainModel.__init__ raises ValueError when a validator fails
PropertyData(address, vals, meta, sources, provenance) ==
    IF \E f \in CanonicalFields : ~validate_field(f, vals[f]).ok
    THEN [status |-> "ValueError"]
    ELSE [status |-> "ok",
          address |-> address,
          beds |-> validate_field("beds", vals["beds"]).value,
          baths |-> validate_field("baths", vals["baths"]).value,
          sqft |-> validate_field("sqft", vals["sqft"]).value,
          lot_sqft |-> validate_field("lot_sqft", vals["lot_sqft"]).value,
          year_built |-> validate_field("year_built", vals["year_built"]).value,
          market_value_estimate |->
              validate_field("market_value_estimate", vals["market_value_estimate"]).value,
          rent_estimate |-> validate_field("rent_estimate", vals["rent_estimate"]).value,
          annual_taxes |-> validate_field("annual_taxes", vals["annual_taxes"]).value,
          closing_cost_estimate |->
              validate_field("closing_cost_estimate", vals["closing_cost_estimate"]).value,
          meta |-> meta,
          sources |-> sources,
          provenance |-> provenance]

----------------------------------------------------------------------------
(* Metadata maps: Dict[str, str]; a key and a value are tuples of tokens *)

EmptyMeta == <<>>

meta_put(meta, key, value) ==
    [k \in DOMAIN meta \cup {key} |-> IF k = key THEN value ELSE meta[k]]

\* mutant: a later record's value replaces an earlier one
meta_setdefault_all_last_wins(meta, other) ==
    [k \in DOMAIN meta \cup DOMAIN other |->
        IF k \in DOMAIN other THEN other[k] ELSE meta[k]]

\* for key, value in record.meta.items(): meta.setdefault(key, value)
meta_setdefault_all(meta, other) ==
    [k \in DOMAIN meta \cup DOMAIN other |->
        IF k \in DOMAIN meta THEN meta[k] ELSE other[k]]

\* f"{field}.source"
source_key(field) == <<field, ".source">>

----------------------------------------------------------------------------
(* property_merging.py: _pick_value *)

\* inner loop: index of the first record, from position i on, that is of the
\* provider and has the field set; 0 when the loop ends without a return
scan_records(field, recs, provider, i) ==
    LET hits == {k \in i..Len(recs) : recs[k].provider = provider /\ recs[k][field] # None}
    IN  IF hits = {} THEN 0 ELSE CHOOSE k \in hits : \A j \in hits : k <= j

\* outer loop over the priority list, from position p on
RECURSIVE pick_from(_, _, _, _, _, _)
pick_from(field, recs, priority, reason_lookup, field_sources, p) ==
    IF p > Len(priority)
    THEN [value |-> None, provider |-> None, field_sources |-> field_sources]
    ELSE LET i == scan_records(field, recs, priority[p], 1)
         IN  IF i = 0
             THEN pick_from(field, recs, priority, reason_lookup, field_sources, p + 1)
             ELSE [value |-> recs[i][field],
                   provider |-> Some(priority[p]),
                   field_sources |->
                       Append(field_sources,
                              [field |-> field,
                               provider |-> priority[p],
                               reason |-> reason_lookup_get(reason_lookup, priority[p])])]

\* mutant: the loops swapped, so the first record in input order wins
pick_value_record_major(field, recs, priority, reason_lookup, field_sources) ==
    LET C == {i \in 1..Len(recs) :
                 /\ \E p \in 1..Len(priority) : priority[p] = recs[i].provider
                 /\ recs[i][field] # None}
    IN  IF C = {}
        THEN [value |-> None, provider |-> None, field_sources |-> field_sources]
        ELSE LET i == CHOOSE x \in C : \A y \in C : x <= y
             IN  [value |-> recs[i][field],
                  provider |-> Some(recs[i].provider),
                  field_sources |->
                      Append(field_sources,
                             [field |-> field,
                              provider |-> recs[i].provider,
                              reason |-> reason_lookup_get(reason_lookup, recs[i].provider)])]

pick_value(field, recs, priority, reason_lookup, field_sources) ==
    pick_from(field, recs, priority, reason_lookup, field_sources, 1)

----------------------------------------------------------------------------
(* property_merging.py: merge_property_records *)

\* the _pick_value calls in source order, threading the shared field_sources list
RECURSIVE pick_all(_, _, _)
pick_all(recs, k, acc) ==
    IF k > Len(PickOrder) THEN acc
    ELSE LET field == PickOrder[k]
             got == pick_value(field, recs, PriorityOf(field), reasons, acc.field_sources)
         IN  pick_all(recs, k + 1,
                      [value |-> [acc.value EXCEPT ![field] = got.value],
                       provider |-> [acc.provider EXCEPT ![field] = got.provider],
                       field_sources |-> got.field_sources])

\* for record in records: for key, value in record.meta.items(): meta.setdefault(...)
RECURSIVE merge_record_meta(_, _, _)
merge_record_meta(recs, i, meta) ==
    IF i > Len(recs) THEN meta
    ELSE merge_record_meta(recs, i + 1, meta_setdefault_all(meta, recs[i].meta))

\* for field, provider in ...: if provider: meta[f"{field}.source"] = provider
RECURSIVE put_sources(_, _, _, _)
put_sources(meta, provider, names, k) ==
    IF k > Len(names) THEN meta
    ELSE put_sources(IF provider[names[k]] # None
                     THEN meta_put(meta, source_key(names[k]), provider[names[k]])
                     ELSE meta,
                     provider, names, k + 1)

\* str.__lt__ on the provider names that occur: sorted() lists them in this order
SortedNames == <<"CACHED", "ESTATED", "LEGACY", "MASS_GIS", "MD_IMAP", "RENTCAST", "ZILLOW">>

RECURSIVE join_comma(_)
join_comma(names) ==
    IF Len(names) = 0 THEN <<>>
    ELSE IF Len(names) = 1 THEN names
    ELSE <<names[1], ",">> \o join_comma(Tail(names))

\* ",".join(sorted({record.provider for record in records}))
data_sources(recs) ==
    LET present == {recs[i].provider : i \in 1..Len(recs)}
    IN  join_comma(SelectSeq(SortedNames, LAMBDA n : n \in present))

\* the geometry loop: first provider of assessor_priority with a record that has one
RECURSIVE scan_geometry(_, _, _)
scan_geometry(recs, provider, i) ==
    IF i > Len(recs) THEN 0
    ELSE IF recs[i].provider = provider /\ recs[i].geometry # None THEN i
    ELSE scan_geometry(recs, provider, i + 1)

RECURSIVE pick_geometry(_, _)
pick_geometry(recs, p) ==
    IF p > Len(assessor_priority) THEN [geometry |-> None, geometry_source |-> None]
    ELSE LET i == scan_geometry(recs, assessor_priority[p], 1)
         IN  IF i = 0 THEN pick_geometry(recs, p + 1)
             ELSE [geometry |-> recs[i].geometry,
                   geometry_source |-> Some(assessor_priority[p])]

InSeq(x, s) == \E i \in 1..Len(s) : s[i] = x

\* mutant: a tag is appended for every record, seen before or not
RECURSIVE collect_sources_with_repeats(_, _, _)
collect_sources_with_repeats(recs, i, sources) ==
    IF i > Len(recs) THEN sources
    ELSE collect_sources_with_repeats(recs, i + 1,
             IF recs[i].provider \in DOMAIN provider_to_api_source
             THEN Append(sources, provider_to_api_source[recs[i].provider])
             ELSE sources)

\* for record in records: api_source = provider_to_api_source.get(record.provider) ...
RECURSIVE collect_sources(_, _, _)
collect_sources(recs, i, sources) ==
    IF i > Len(recs) THEN sources
    ELSE LET known == recs[i].provider \in DOMAIN provider_to_api_source
         IN  collect_sources(recs, i + 1,
                 IF known /\ ~InSeq(provider_to_api_source[recs[i].provider], sources)
                 THEN Append(sources, provider_to_api_source[recs[i].provider])
                 ELSE sources)

\* mutant: no check of the list, an empty one merges to an empty result
merge_property_records_unchecked(recs) ==
    [status |-> "ok",
     property |-> [f \in CanonicalFields |-> None],
     field_sources |-> <<>>,
     all_raw_records |-> recs]

merge_property_records(recs) ==
    IF Len(recs) = 0 THEN [status |-> "ValueError"]
    ELSE
    LET picks == pick_all(recs, 1,
                     [value |-> [f \in CanonicalFields \cup CategoricalFields |-> None],
                      provider |-> [f \in CanonicalFields \cup CategoricalFields |-> None],
                      field_sources |-> <<>>])
        meta0 == merge_record_meta(recs, 1, EmptyMeta)
        meta1 == put_sources(meta0, picks.provider, CanonicalOrder, 1)
        meta2 == meta_put(meta1, <<"dataSources">>, data_sources(recs))
        meta3 == put_sources(meta2, picks.provider,
                             <<"land_use_code", "property_type", "owner_name">>, 1)
        geo == pick_geometry(recs, 1)
        meta4 == IF geo.geometry_source # None
                 THEN meta_put(meta3, <<"geometry.source">>, geo.geometry_source)
                 ELSE meta3
        sources == collect_sources(recs, 1, <<>>)
        property_data == PropertyData(recs[1].address,
                                      [f \in CanonicalFields |-> picks.value[f]],
                                      meta4, sources, <<>>)
    IN  IF property_data.status # "ok" THEN [status |-> "ValueError"]
        ELSE [status |-> "ok",
              property |-> property_data,
              field_sources |-> picks.field_sources,
              all_raw_records |-> recs]

----------------------------------------------------------------------------
(* Inputs of the merge scenarios *)

\* Address(line1, city, state, zip); each part is a tuple of characters
Addr1 == [line1 |-> <<"1 MAIN ST">>, city |-> <<"AUSTIN">>, state |-> <<"TX">>,
          zip |-> <<"78701">>]

\* the numbers a provider may report for a field: 1.0, 2.0 or 2.5, a negative
\* number, and 1.004, which is neither a whole number nor an amount in cents
ValuesOf(field) ==
    IF field \in CountFields THEN {-1000, 1000, 2500}
    ELSE IF field \in IntFields THEN {1000, 2000, 1004}
    ELSE {-1000, 1004, 2000}

BlankRecord(provider) ==
    [provider |-> provider, fetched_at |-> 0, address |-> Addr1,
     beds |-> None, baths |-> None, sqft |-> None, lot_sqft |-> None,
     year_built |-> None, market_value_estimate |-> None, rent_estimate |-> None,
     annual_taxes |-> None, closing_cost_estimate |-> None,
     owner_name |-> None, land_use_code |-> None, property_type |-> None,
     geometry |-> None, meta |-> EmptyMeta]

\* the records of one scenario vary in their provider and in one field
RecordsOn(field) ==
    {BlankRecord(p) : p \in AllProviders}
    \cup {[BlankRecord(p) EXCEPT ![field] = Some(v)] :
              p \in AllProviders, v \in ValuesOf(field)}

SeqsUpTo(S, n) == UNION {[1..k -> S] : k \in 0..n}

\* the list with the records at positions k and k + 1 exchanged
SwapAt(recs, k) ==
    [i \in 1..Len(recs) |->
        IF i = k THEN recs[k + 1] ELSE IF i = k + 1 THEN recs[k] ELSE recs[i]]

NoResult == [status |-> "none"]

\* the aggregation service is not part of the scenario
AggIdle ==
    /\ focus = "beds"
    /\ existing = NoResult
    /\ primary_adapters = <<>>
    /\ open_data_providers = <<>>
    /\ marketplace_provider = None
    /\ aggregated = NoResult
    /\ apc = "idle"
    /\ step = 0
    /\ last = NoResult

\* the provider cache is not part of the scenario
CacheIdle ==
    /\ now = 0
    /\ ttl = 0
    /\ store = EmptyMeta
    /\ history = EmptyMeta
    /\ call = NoResult

\* no aggregate call has been made on a kept service
CallsIdle == service_calls = <<>>

\* the repository is empty and is not part of the scenario
RepoIdle ==
    /\ db = <<>>
    /\ last_upsert = NoResult

\* fetch_property is not part of the scenario
FetchIdle ==
    /\ fetch_env = NoResult
    /\ fetch_log = <<>>

\* the marketplace provider and the HUD provider are not part of the scenario
ProvidersIdle ==
    /\ retry = NoResult
    /\ hud_cache = EmptyMeta
    /\ hud_success = EmptyMeta
    /\ hud_last = NoResult

\* no thread is using the provider cache
ConcIdle ==
    /\ threads = <<>>
    /\ sets_started = 0
    /\ sets_done = 0
    /\ last_done = None
    /\ last_get = NoResult

MergeInit ==
    /\ CallsIdle
    /\ ProvidersIdle
    /\ FetchIdle
    /\ RepoIdle
    /\ CacheIdle
    /\ ConcIdle
    /\ \E field \in CanonicalFields :
           records \in SeqsUpTo(RecordsOn(field), MaxRecords)
    /\ merged = NoResult
    /\ mpc = "input"
    /\ AggIdle

\* merged = merge_property_records(records)
Merge ==
    /\ mpc = "input"
    /\ merged' = merge_property_records(records)
    /\ mpc' = "merged"
    /\ UNCHANGED <<records, aggVars, cacheVars, concVars, callVars, repoVars, fetchVars, retryVars, hudVars>>

\* the caller hands over the same records with two neighbours exchanged; every
\* permutation of a list is reached by a run of such calls
MergeReordered ==
    /\ mpc = "merged"
    /\ \E k \in 1..(Len(records) - 1) :
           /\ records' = SwapAt(records, k)
           /\ merged' = merge_property_records(records')
    /\ UNCHANGED <<mpc, aggVars, cacheVars, concVars, callVars, repoVars, fetchVars, retryVars, hudVars>>

MergeNext == Merge \/ MergeReordered

SpecMerge == MergeInit /\ [][MergeNext]_vars

----------------------------------------------------------------------------
(* Claims about merge_property_records *)

Min(S) == CHOOSE x \in S : \A y \in S : x <= y

\* the value as PropertyData holds it (a money field is kept in cents); a value
\* that PropertyData rejects is held by no record and reads as None here
Stored(field, value) ==
    IF validate_field(field, value).ok THEN validate_field(field, value).value ELSE None

\* the scan orders as claim C1 words them
C1_StaticOrder == <<"MD_IMAP", "MASS_GIS", "ESTATED", "RENTCAST", "LEGACY", "CACHED">>

C1_EstimateOrder == <<"RENTCAST", "ESTATED", "MD_IMAP", "MASS_GIS", "LEGACY", "CACHED">>

C1_Order(field) ==
    IF field \in {"beds", "baths", "sqft", "lot_sqft", "year_built", "annual_taxes"}
    THEN C1_StaticOrder
    ELSE C1_EstimateOrder

\* positions of the order whose provider has a record with the field set
Holders(field, order, recs) ==
    {p \in 1..Len(order) :
        \E i \in 1..Len(recs) : recs[i].provider = order[p] /\ recs[i][field] # None}

\* the first record of the provider, in input order, with the field set
FirstHolder(field, provider, recs) ==
    Min({i \in 1..Len(recs) : recs[i].provider = provider /\ recs[i][field] # None})

\* C1: every canonical field of the merged record is the value of the first
\* record that has it, providers scanned in the field's priority order (static
\* facts: MD_IMAP, MASS_GIS, ESTATED, RENTCAST, LEGACY, CACHED; estimates:
\* RENTCAST, ESTATED, MD_IMAP, MASS_GIS, LEGACY, CACHED); a field that no
\* provider of the list has is unset.
C1_PriorityResolution ==
    (mpc # "input" /\ merged.status = "ok") =>
        \A f \in CanonicalFields :
            LET order == C1_Order(f)
                H == Holders(f, order, records)
            IN  IF H = {} THEN merged.property[f] = None
                ELSE merged.property[f] =
                         Stored(f, records[FirstHolder(f, order[Min(H)], records)][f])

\* a later record of a higher-priority provider beat an earlier record
C1_Witness ==
    /\ mpc # "input"
    /\ merged.status = "ok"
    /\ \E f \in CanonicalFields :
           /\ Len(records) = 2
           /\ records[1][f] # None
           /\ records[2][f] # None
           /\ records[1].provider # records[2].provider
           /\ records[1][f] # records[2][f]
           /\ merged.property[f] = records[2][f]

\* the providers field_sources names for a field
SourceProviders(result, field) ==
    {result.field_sources[k].provider :
        k \in {j \in 1..Len(result.field_sources) : result.field_sources[j].field = field}}

SameValuesAndProviders(a, b) ==
    /\ \A f \in CanonicalFields : a.property[f] = b.property[f]
    /\ \A f \in CanonicalFields \cup CategoricalFields :
           SourceProviders(a, f) = SourceProviders(b, f)

\* C2 as stated: merging any permutation of a non-empty list gives the same
\* value for every canonical field and the same FieldSourceInfo.provider.
C2_AnyPermutation ==
    [][(mpc = "merged" /\ mpc' = "merged"
            /\ merged.status = "ok" /\ merged'.status = "ok") =>
          SameValuesAndProviders(merged, merged')]_vars

\* no two records of one provider both carry a value for the same field
OneValuePerProvider(recs) ==
    \A i, j \in 1..Len(recs) :
        (i # j /\ recs[i].provider = recs[j].provider) =>
            \A f \in CanonicalFields : recs[i][f] = None \/ recs[j][f] = None

\* C2 amended: when no two records of the same provider both carry a value for
\* the same field, merging the list in another order gives the same outcome:
\* the same value for every canonical field and the same provider per field.
C2_PermutationDistinctProviders ==
    [][(mpc = "merged" /\ mpc' = "merged" /\ OneValuePerProvider(records)) =>
          /\ merged.status = merged'.status
          /\ merged.status = "ok" => SameValuesAndProviders(merged, merged')]_vars

\* records of two providers that disagree on a field, merged with the
\* higher-priority record last: the list whose exchange the claim is about
C2_Witness ==
    /\ mpc = "merged"
    /\ Len(records) = 2
    /\ records[1].provider = "RENTCAST"
    /\ records[2].provider = "MD_IMAP"
    /\ merged.status = "ok"
    /\ records[1]["lot_sqft"] = Some(1000)
    /\ records[2]["lot_sqft"] = Some(2000)
    /\ merged.property["lot_sqft"] = Some(2000)
    /\ merged.all_raw_records = records

\* C3: a field for which no input record has a value is absent (None) in the
\* merged record, never zero or another stand-in value.
C3_NoFabrication ==
    (mpc # "input" /\ merged.status = "ok") =>
        \A f \in CanonicalFields :
            (\A i \in 1..Len(records) : records[i][f] = None) =>
                merged.property[f] = None

\* one field was resolved while another, which no record has, stayed unset
C3_Witness ==
    /\ mpc # "input"
    /\ merged.status = "ok"
    /\ \E f, g \in CanonicalFields :
           /\ merged.property[f] # None
           /\ \A i \in 1..Len(records) : records[i][g] = None
           /\ merged.property[g] = None

\* C4: a canonical field is set exactly when field_sources has exactly one
\* entry for it (none when unset), and the entry names the provider of the
\* record the value came from with that provider's fixed reason.
C4_FieldSourcesMatch ==
    (mpc # "input" /\ merged.status = "ok") =>
        \A f \in CanonicalFields :
            LET fs == merged.field_sources
                E == {k \in 1..Len(fs) : fs[k].field = f}
            IN  /\ (merged.property[f] # None) <=> (Cardinality(E) = 1)
                /\ (merged.property[f] = None) => (E = {})
                /\ \A k \in E :
                       /\ fs[k].provider \in ProviderNames
                       /\ fs[k].reason = reasons[fs[k].provider]
                       /\ \E i \in 1..Len(records) :
                              /\ records[i].provider = fs[k].provider
                              /\ records[i][f] # None
                              /\ Stored(f, records[i][f]) = merged.property[f]

\* a resolved field with its single entry, next to records of two providers
C4_Witness ==
    /\ mpc # "input"
    /\ merged.status = "ok"
    /\ Len(records) = 2
    /\ records[1].provider # records[2].provider
    /\ \E f \in CanonicalFields :
           /\ merged.property[f] # None
           /\ Len(merged.field_sources) = 1
           /\ merged.field_sources[1].field = f
           /\ merged.field_sources[1].reason = "live valuation / rent API"

----------------------------------------------------------------------------
(* data_providers/models.py: PropertyDataPatch, ProviderResult, record_source *)

ApiSourceValues == {"zillow", "rentometer", "attom", "closingcorp", "estated",
                    "rentcast", "redfin", "md_imap", "mass_gis", "mock",
                    "hud_fmr", "marketplace_comps"}

\* DataAggregationService._try_source_enum
try_source_enum(name) == IF name \in ApiSourceValues THEN Some(name) ELSE None

\* PropertyDataPatch(): every field at its default
BlankPatch ==
    [beds |-> None, baths |-> None, sqft |-> None, lot_sqft |-> None,
     year_built |-> None, market_value_estimate |-> None, rent_estimate |-> None,
     annual_taxes |-> None, closing_cost_estimate |-> None,
     meta |-> EmptyMeta, fields |-> <<>>, raw_reference |-> None]

\* mutant: the policy test is dropped, a new value always wins
choose_new_first(new, old, prefer_existing) ==
    IF new # None THEN new ELSE old

\* the inner function of PropertyDataPatch.apply
choose(new, old, prefer_existing) ==
    IF prefer_existing /\ old # None THEN old
    ELSE IF new # None THEN new ELSE old

\* {**existing.meta, **self.meta}
meta_update(meta, other) ==
    [k \in DOMAIN meta \cup DOMAIN other |->
        IF k \in DOMAIN other THEN other[k] ELSE meta[k]]

\* PropertyDataPatch.apply
patch_apply(patch, snapshot, prefer_existing) ==
    PropertyData(snapshot.address,
                 [f \in CanonicalFields |-> choose(patch[f], snapshot[f], prefer_existing)],
                 meta_update(snapshot.meta, patch.meta),
                 snapshot.sources,
                 snapshot.provenance)

\* PropertyDataPatch.from_property_data
from_property_data(data, raw_reference) ==
    [beds |-> data.beds, baths |-> data.baths, sqft |-> data.sqft,
     lot_sqft |-> data.lot_sqft, year_built |-> data.year_built,
     market_value_estimate |-> data.market_value_estimate,
     rent_estimate |-> data.rent_estimate, annual_taxes |-> data.annual_taxes,
     closing_cost_estimate |-> data.closing_cost_estimate,
     meta |-> data.meta,
     fields |-> SelectSeq(CanonicalOrder, LAMBDA n : data[n] # None),
     raw_reference |-> raw_reference]

\* ProviderResult.provenance: the SourceAttribution entries of a result
result_provenance(provider_result) ==
    IF provider_result.property_data = None THEN <<>>
    ELSE IF provider_result.property_data[1].fields = <<>> THEN <<>>
    ELSE << [provider |-> provider_result.provider,
             fields |-> provider_result.property_data[1].fields,
             raw_reference |-> provider_result.property_data[1].raw_reference] >>

\* mutant: the source tag is not recorded
record_source_without_tag(property_data, provider_result, api_source) ==
    PropertyData(property_data.address,
                 [f \in CanonicalFields |-> property_data[f]],
                 property_data.meta,
                 property_data.sources,
                 property_data.provenance \o result_provenance(provider_result))

\* record_source
record_source(property_data, provider_result, api_source) ==
    PropertyData(property_data.address,
                 [f \in CanonicalFields |-> property_data[f]],
                 property_data.meta,
                 IF api_source # None /\ ~InSeq(api_source[1], property_data.sources)
                 THEN Append(property_data.sources, api_source[1])
                 ELSE property_data.sources,
                 property_data.provenance \o result_provenance(provider_result))

----------------------------------------------------------------------------
(* data_providers/aggregation.py: _apply_result *)

\* json.dumps(raw_payload): the serialized text is not the payload itself
json_dumps(payload) == <<"json">> \o payload

RECURSIVE flatten_pairs(_)
flatten_pairs(pairs) ==
    IF Len(pairs) = 0 THEN <<>> ELSE pairs[1] \o flatten_pairs(Tail(pairs))

\* json.dumps(merged_benchmarks): each benchmark is its provider and its label
json_dumps_list(pairs) == <<"[">> \o flatten_pairs(pairs) \o <<"]">>

\* json.loads on a meta value: the list it encodes, or a JSONDecodeError
json_loads(text) ==
    IF Len(text) >= 2 /\ text[1] = "[" /\ text[Len(text)] = "]" /\ Len(text) % 2 = 0
    THEN [kind |-> "list",
          value |-> [i \in 1..((Len(text) - 2) \div 2) |-> <<text[2 * i], text[2 * i + 1]>>]]
    ELSE [kind |-> "JSONDecodeError"]

\* mutant: the new benchmarks replace the list
merge_benchmarks_replacing(updated, provider_result) ==
    IF provider_result.area_rent_benchmarks = <<>> THEN updated
    ELSE [updated EXCEPT !.meta =
              meta_put(@, <<"rent_benchmarks">>,
                       json_dumps_list(
                           [i \in 1..Len(provider_result.area_rent_benchmarks) |->
                               <<provider_result.provider,
                                 provider_result.area_rent_benchmarks[i]>>]))]

\* the rent_benchmarks branch of _apply_result
merge_benchmarks(updated, provider_result) ==
    IF provider_result.area_rent_benchmarks = <<>> THEN updated
    ELSE LET loaded == IF <<"rent_benchmarks">> \in DOMAIN updated.meta
                       THEN json_loads(updated.meta[<<"rent_benchmarks">>])
                       ELSE [kind |-> "list", value |-> <<>>]
             existing_benchmarks == IF loaded.kind = "list" THEN loaded.value ELSE <<>>
             merged_benchmarks ==
                 existing_benchmarks \o
                 [i \in 1..Len(provider_result.area_rent_benchmarks) |->
                     <<provider_result.provider, provider_result.area_rent_benchmarks[i]>>]
         IN  [updated EXCEPT !.meta =
                  meta_put(@, <<"rent_benchmarks">>, json_dumps_list(merged_benchmarks))]

\* _apply_result once a provider result is at hand
merge_result(snapshot, result, api_source, prefer_existing) ==
    LET updated0 == IF result.property_data # None
                    THEN patch_apply(result.property_data[1], snapshot, prefer_existing)
                    ELSE snapshot
        raw_key == IF result.property_data # None
                      /\ result.property_data[1].raw_reference # None
                   THEN result.property_data[1].raw_reference[1]
                   ELSE <<result.provider, "_raw">>
        updated1 == IF result.raw_payload # None /\ result.property_data # None
                    THEN [updated0 EXCEPT !.meta =
                              meta_put(@, raw_key, json_dumps(result.raw_payload[1]))]
                    ELSE updated0
        effective_source == IF api_source # None THEN api_source
                            ELSE try_source_enum(result.provider)
    IN  IF updated0.status # "ok" THEN [status |-> "ValueError"]
        ELSE merge_benchmarks(record_source(updated1, result, effective_source), result)

\* mutant: a missing result still records the provider as a source
apply_result_records_none(snapshot, provider_result, api_source, prefer_existing) ==
    IF provider_result = None
    THEN [snapshot EXCEPT !.sources =
              IF api_source # None THEN Append(@, api_source[1]) ELSE @]
    ELSE merge_result(snapshot, provider_result[1], api_source, prefer_existing)

\* DataAggregationService._apply_result; provider_result is None or Some(result)
apply_result(snapshot, provider_result, api_source, prefer_existing) ==
    IF provider_result = None THEN snapshot
    ELSE merge_result(snapshot, provider_result[1], api_source, prefer_existing)

----------------------------------------------------------------------------
(* data_providers/adapters.py: LegacyProviderAdapter.fetch_for_property *)

\* out is what provider.fetch(address) did: raised, returned None, or returned data
legacy_fetch_for_property(name, out) ==
    IF out.kind # "data" THEN [name |-> name, result |-> None]
    ELSE LET data == out.data
             renamed == IF data.sources # <<>> THEN data.sources[1] ELSE name
             patch == from_property_data(data, Some(<<renamed, "_raw">>))
         IN  [name |-> renamed,
              result |-> Some([provider |-> renamed,
                               property_data |-> Some(patch),
                               area_rent_benchmarks |-> <<>>,
                               raw_payload |->
                                   IF DOMAIN data.meta # {}
                                      /\ <<renamed, "_raw">> \in DOMAIN data.meta
                                   THEN Some(data.meta[<<renamed, "_raw">>])
                                   ELSE None])]

----------------------------------------------------------------------------
(* data_providers/aggregation.py: DataAggregationService.aggregate *)

\* the merge engine is not part of the scenario
MergeIdle ==
    /\ records = <<>>
    /\ merged = NoResult
    /\ mpc = "idle"

BlankValues == [f \in CanonicalFields |-> None]

\* the values of a field that PropertyData accepts, as a provider reports them
AcceptedValues(field) == {v \in ValuesOf(field) : validate_field(field, Some(v)).ok}

FirstAccepted(field) == Min(AcceptedValues(field))

\* the snapshots a caller may pass as existing=
ExistingSnapshots(field) ==
    { NoResult,
      PropertyData(Addr1, [BlankValues EXCEPT ![field] = Some(FirstAccepted(field))],
                   (<<"k1">> :> <<"old">>), <<"mock">>, <<>>),
      PropertyData(Addr1, BlankValues,
                   (<<"rent_benchmarks">> :> json_dumps_list(<< <<"hud_fmr", "1br">> >>)),
                   <<>>, <<>>),
      PropertyData(Addr1, BlankValues,
                   (<<"rent_benchmarks">> :> <<"not json">>), <<>>, <<>>) }

\* what a legacy provider's fetch(address) may do
LegacyOutcomes(field) ==
    { [kind |-> "raise"], [kind |-> "none"],
      [kind |-> "data", data |-> PropertyData(Addr1, BlankValues, EmptyMeta, <<>>, <<>>)],
      [kind |-> "data",
       data |-> PropertyData(Addr1, [BlankValues EXCEPT ![field] = Some(FirstAccepted(field))],
                             (<<"k1">> :> <<"new">>) @@ (<<"mock", "_raw">> :> <<"payload">>),
                             <<"mock">>, <<>>)] }
    \cup { [kind |-> "data",
            data |-> PropertyData(Addr1, [BlankValues EXCEPT ![field] = Some(v)],
                                  EmptyMeta, <<>>, <<>>)] : v \in AcceptedValues(field) }
    \cup (IF field = "beds"
          THEN { [kind |-> "data",
                  data |-> PropertyData(Addr1,
                               [BlankValues EXCEPT !.beds = Some(3000),
                                                   !.rent_estimate = Some(2000000)],
                               EmptyMeta, <<>>, <<>>)] }
          ELSE {})

\* what fetch_for_property of an open-data or marketplace provider may do
ProviderOutcomes(name, tier, field) ==
    { [kind |-> "raise"], [kind |-> "none"],
      [kind |-> "result",
       result |-> [provider |-> name, property_data |-> None,
                   area_rent_benchmarks |-> <<"2br">>, raw_payload |-> Some(<<"payload">>)]],
      [kind |-> "result",
       result |-> [provider |-> name,
                   property_data |->
                       Some([BlankPatch EXCEPT ![field] = Some(FirstAccepted(field)),
                                               !.meta = (<<"k1">> :> <<"new">>),
                                               !.fields = <<field>>,
                                               !.raw_reference =
                                                   IF tier = "marketplace"
                                                   THEN Some(<<"marketplace", "_raw">>)
                                                   ELSE None]),
                   area_rent_benchmarks |-> <<>>, raw_payload |-> Some(<<"payload">>)]] }
    \cup { [kind |-> "result",
            result |-> [provider |-> name,
                        property_data |-> Some([BlankPatch EXCEPT ![field] = Some(v),
                                                                  !.fields = <<field>>]),
                        area_rent_benchmarks |-> <<>>, raw_payload |-> None]]
           : v \in ValuesOf(field) }

PrimaryNames == <<"estated", "rentcast", "mock", "attom">>

OpenDataNames == <<"hud_fmr", "county_gis", "md_imap", "mass_gis">>

MarketplaceName == "marketplace_comps"

AggInit ==
    /\ CallsIdle
    /\ ProvidersIdle
    /\ FetchIdle
    /\ RepoIdle
    /\ MergeIdle
    /\ CacheIdle
    /\ ConcIdle
    /\ focus \in CanonicalFields
    /\ existing \in ExistingSnapshots(focus)
    /\ \E np \in 0..Min({MaxProviders, Len(PrimaryNames)}) :
       \E no \in 0..Min({MaxProviders - np, Len(OpenDataNames)}) :
           /\ primary_adapters = SubSeq(PrimaryNames, 1, np)
           /\ open_data_providers = SubSeq(OpenDataNames, 1, no)
           /\ marketplace_provider \in
                  IF np + no < MaxProviders THEN {None, Some(MarketplaceName)} ELSE {None}
    /\ aggregated = NoResult
    /\ apc = "start"
    /\ step = 0
    /\ last = NoResult

\* where the loops of aggregate stand when entry i of a tier is next
after_open_data ==
    IF marketplace_provider # None THEN <<"marketplace", 1>> ELSE <<"return", 0>>

open_data_position(i) ==
    IF i <= Len(open_data_providers) THEN <<"open_data", i>> ELSE after_open_data

primary_position(i) ==
    IF i <= Len(primary_adapters) THEN <<"primary", i>> ELSE open_data_position(1)

\* aggregated = existing or PropertyData(address=address, ...)
AggregateCall ==
    /\ apc = "start"
    /\ aggregated' = IF existing # NoResult THEN existing
                     ELSE PropertyData(Addr1, BlankValues, EmptyMeta, <<>>, <<>>)
    /\ apc' = primary_position(1)[1]
    /\ step' = primary_position(1)[2]
    /\ UNCHANGED <<focus, existing, primary_adapters, open_data_providers,
                   marketplace_provider, last, mergeVars, cacheVars, concVars, callVars, repoVars, fetchVars, retryVars, hudVars>>

\* one turn of a loop of aggregate: the fetch has been made, its result is applied
apply_step(tier, name, fetched, provider_result, api_source, prefer_existing, position) ==
    LET updated == IF fetched = "raise" THEN [status |-> "Exception"]
                   ELSE apply_result(aggregated, provider_result, api_source, prefer_existing)
    IN  /\ last' = [tier |-> tier, provider |-> name, fetched |-> fetched,
                    result |-> provider_result, prefer_existing |-> prefer_existing]
        /\ IF updated.status = "ok"
           THEN /\ aggregated' = updated
                /\ apc' = position[1]
                /\ step' = position[2]
           ELSE /\ apc' = "raised"
                /\ UNCHANGED <<aggregated, step>>

\* for provider in self.primary_adapters
PrimaryStep ==
    /\ apc = "primary"
    /\ \E out \in LegacyOutcomes(focus) :
        LET fetch == legacy_fetch_for_property(primary_adapters[step], out)
        IN  /\ primary_adapters' = [primary_adapters EXCEPT ![step] = fetch.name]
            /\ apply_step("primary", fetch.name,
                          IF fetch.result = None THEN "none" ELSE "result",
                          fetch.result, try_source_enum(fetch.name), FALSE,
                          primary_position(step + 1))
    /\ UNCHANGED <<focus, existing, open_data_providers, marketplace_provider, mergeVars, cacheVars, concVars, callVars, repoVars, fetchVars, retryVars, hudVars>>

\* for provider in self.open_data_providers
OpenDataStep ==
    /\ apc = "open_data"
    /\ \E out \in ProviderOutcomes(open_data_providers[step], "open_data", focus) :
           apply_step("open_data", open_data_providers[step], out.kind,
                      IF out.kind = "result" THEN Some(out.result) ELSE None,
                      try_source_enum(open_data_providers[step]), TRUE,
                      open_data_position(step + 1))
    /\ UNCHANGED <<focus, existing, primary_adapters, open_data_providers,
                   marketplace_provider, mergeVars, cacheVars, concVars, callVars, repoVars, fetchVars, retryVars, hudVars>>

\* if self.marketplace_provider
MarketplaceStep ==
    /\ apc = "marketplace"
    /\ \E out \in ProviderOutcomes(marketplace_provider[1], "marketplace", focus) :
           apply_step("marketplace", marketplace_provider[1], out.kind,
                      IF out.kind = "result" THEN Some(out.result) ELSE None,
                      Some(MarketplaceName), TRUE, <<"return", 0>>)
    /\ UNCHANGED <<focus, existing, primary_adapters, open_data_providers,
                   marketplace_provider, mergeVars, cacheVars, concVars, callVars, repoVars, fetchVars, retryVars, hudVars>>

\* return aggregated
AggregateReturn ==
    /\ apc = "return"
    /\ apc' = "returned"
    /\ UNCHANGED <<focus, existing, primary_adapters, open_data_providers,
                   marketplace_provider, aggregated, step, last, mergeVars, cacheVars, concVars, callVars, repoVars, fetchVars, retryVars, hudVars>>

AggNext ==
    \/ AggregateCall
    \/ PrimaryStep
    \/ OpenDataStep
    \/ MarketplaceStep
    \/ AggregateReturn

SpecAgg == AggInit /\ [][AggNext]_vars

----------------------------------------------------------------------------
(* Claims about the aggregation service *)

Tiers == {"primary", "open_data", "marketplace"}

\* the providers of aggregate's loops that come after entry i of a tier
Remaining(tier, i) ==
    LET m == IF marketplace_provider # None THEN 1 ELSE 0
    IN  IF tier = "primary" THEN Len(primary_adapters) - i + Len(open_data_providers) + m
        ELSE IF tier = "open_data" THEN Len(open_data_providers) - i + m
        ELSE 0

\* C5: a patch applied with prefer_existing (the open-data and marketplace
\* tiers) leaves every snapshot field that is already non-null unchanged; under
\* the default policy (the primary tier) every non-null patch value overwrites
\* the snapshot's value.
C5_PatchPolicy ==
    [][ (apc \in Tiers /\ apc' # "raised" /\ last'.fetched = "result"
         /\ last'.result[1].property_data # None)
        => /\ last'.prefer_existing = (apc \in {"open_data", "marketplace"})
           /\ \A f \in CanonicalFields :
                  /\ (last'.prefer_existing /\ aggregated[f] # None)
                         => aggregated'[f] = aggregated[f]
                  /\ (~last'.prefer_existing /\ last'.result[1].property_data[1][f] # None)
                         => aggregated'[f] = last'.result[1].property_data[1][f] ]_vars

\* a primary provider has overwritten the caller's value, and an open-data
\* patch offering another value has then left the overwritten value in place
C5_Witness ==
    /\ existing # NoResult
    /\ existing[focus] # None
    /\ apc \in {"open_data", "marketplace", "return"}
    /\ last # NoResult
    /\ last.tier = "open_data"
    /\ last.fetched = "result"
    /\ last.result[1].property_data # None
    /\ last.result[1].property_data[1][focus] # None
    /\ aggregated[focus] # None
    /\ aggregated[focus] # existing[focus]
    /\ aggregated[focus] # last.result[1].property_data[1][focus]

\* C6: a provider fetch that fails, in whichever tier, never aborts aggregate.
C6_FailureNeverAborts ==
    (last # NoResult /\ last.fetched = "raise") => apc # "raised"

\* C7: when a provider returns no result, the step changes nothing in the
\* snapshot (fields, meta, sources, provenance) and the loops go on to exactly
\* the next provider, or to the return when none is left.
C7_NoResultNoChange ==
    [][ (apc \in Tiers /\ last'.fetched = "none")
        => /\ aggregated' = aggregated
           /\ primary_adapters' = primary_adapters
           /\ IF Remaining(apc, step) = 0 THEN apc' = "return"
              ELSE /\ apc' \in Tiers
                   /\ Remaining(apc', step') = Remaining(apc, step) - 1 ]_vars

\* a provider had no result for a snapshot that holds data, and another
\* provider is still to be asked
C7_Witness ==
    /\ last # NoResult
    /\ last.fetched = "none"
    /\ apc \in Tiers
    /\ aggregated[focus] # None
    /\ aggregated.sources # <<>>
    /\ DOMAIN aggregated.meta # {}

----------------------------------------------------------------------------
(* property_merging.py: ProviderCache; data_fetch.py: _fetch_with_cache *)

\* cached_record_key: f"{provider}:{line1}|{city}|{state}|{zip}"
cached_record_key(provider, address) ==
    <<provider, ":">> \o address.line1 \o <<"|">> \o address.city \o <<"|">>
        \o address.state \o <<"|">> \o address.zip

\* self._store.pop(key, None)
store_pop(st, key) == [k \in DOMAIN st \ {key} |-> st[k]]

\* mutant: an entry is taken as expired at its expiry time already
cache_get_expired_at_expiry(st, key, clock) ==
    IF key \notin DOMAIN st THEN [store |-> st, returned |-> None]
    ELSE IF clock >= st[key].expires_at
         THEN [store |-> store_pop(st, key), returned |-> None]
         ELSE [store |-> st, returned |-> Some(st[key].record)]

\* ProviderCache.get: the store it leaves and what it returns
cache_get(st, key, clock) ==
    IF key \notin DOMAIN st THEN [store |-> st, returned |-> None]
    ELSE IF clock > st[key].expires_at
         THEN [store |-> store_pop(st, key), returned |-> None]
         ELSE [store |-> st, returned |-> Some(st[key].record)]

\* ProviderCache.set
cache_set(st, key, record, clock) ==
    meta_put(st, key, [expires_at |-> clock + ttl, record |-> record])

\* normalize_fn(result): the provider client's record as a NormalizedPropertyRecord
normalize_fn(provider, data, clock) ==
    [BlankRecord(provider) EXCEPT !.fetched_at = clock, !.address = data.address,
                                  !.beds = data.beds]

\* mutant: an absent result is stored like a record
fetch_with_cache_stores_absent(st, provider_name, address, out, clock, fetched_clock) ==
    LET cache_key == cached_record_key(provider_name, address)
        cached == cache_get(st, cache_key, clock)
    IN  IF cached.returned # None
        THEN [status |-> "ok", store |-> cached.store, returned |-> cached.returned,
              invoked |-> FALSE]
        ELSE IF out.kind = "raise"
        THEN [status |-> "Exception", store |-> cached.store, returned |-> None,
              invoked |-> TRUE]
        ELSE IF out.kind = "none"
        THEN [status |-> "ok",
              store |-> cache_set(cached.store, cache_key, None, fetched_clock),
              returned |-> None, invoked |-> TRUE]
        ELSE LET normalized == normalize_fn(provider_name, out.data, fetched_clock)
             IN  [status |-> "ok",
                  store |-> cache_set(cached.store, cache_key, normalized, fetched_clock),
                  returned |-> Some(normalized), invoked |-> TRUE]

\* _fetch_with_cache, called at clock; fetch_fn, when invoked, answers out at
\* fetched_clock
fetch_with_cache(st, provider_name, address, out, clock, fetched_clock) ==
    LET cache_key == cached_record_key(provider_name, address)
        cached == cache_get(st, cache_key, clock)
    IN  IF cached.returned # None
        THEN [status |-> "ok", store |-> cached.store, returned |-> cached.returned,
              invoked |-> FALSE]
        ELSE IF out.kind = "raise"
        THEN [status |-> "Exception", store |-> cached.store, returned |-> None,
              invoked |-> TRUE]
        ELSE IF out.kind = "none"
        THEN [status |-> "ok", store |-> cached.store, returned |-> None,
              invoked |-> TRUE]
        ELSE LET normalized == normalize_fn(provider_name, out.data, fetched_clock)
             IN  [status |-> "ok",
                  store |-> cache_set(cached.store, cache_key, normalized, fetched_clock),
                  returned |-> Some(normalized), invoked |-> TRUE]

\* the clock stops at MaxTime minutes
MaxTime == 3

\* ProviderCache(ttl_minutes) is built with 0 to MaxTtl minutes
MaxTtl == 2

CacheProviders == {"RENTCAST", "ESTATED"}

CacheKeys == {cached_record_key(p, Addr1) : p \in CacheProviders}

provider_of_key(key) == key[1]

BedsValues == {Some(1000), Some(2000)}

\* what fetch_fn(address) may do: raise, return None, or return a client record
FetchOutcomes ==
    { [kind |-> "raise"], [kind |-> "none"] }
    \cup { [kind |-> "data", data |-> [address |-> Addr1, beds |-> b]] : b \in BedsValues }

CacheInit ==
    /\ CallsIdle
    /\ ProvidersIdle
    /\ FetchIdle
    /\ RepoIdle
    /\ MergeIdle
    /\ AggIdle
    /\ ConcIdle
    /\ now = 0
    /\ ttl \in 0..MaxTtl
    /\ store = EmptyMeta
    /\ history = [k \in CacheKeys |-> None]
    /\ call = NoResult

\* a minute passes
Tick ==
    /\ now < MaxTime
    /\ now' = now + 1
    /\ UNCHANGED <<ttl, store, history, call, mergeVars, aggVars, concVars, callVars, repoVars, fetchVars, retryVars, hudVars>>

\* _provider_cache.get(key)
CacheGet ==
    /\ \E key \in CacheKeys :
        LET cached == cache_get(store, key, now)
        IN  /\ store' = cached.store
            /\ call' = [op |-> "get", key |-> key, at |-> now, returned |-> cached.returned]
    /\ UNCHANGED <<now, ttl, history, mergeVars, aggVars, concVars, callVars, repoVars, fetchVars, retryVars, hudVars>>

\* _provider_cache.set(key, record)
CacheSet ==
    /\ \E key \in CacheKeys, b \in BedsValues :
        LET record == [BlankRecord(provider_of_key(key)) EXCEPT !.fetched_at = now,
                                                                !.beds = b]
        IN  /\ store' = cache_set(store, key, record, now)
            /\ history' = [history EXCEPT ![key] = Some([at |-> now, record |-> record])]
            /\ call' = [op |-> "set", key |-> key, at |-> now]
    /\ UNCHANGED <<now, ttl, mergeVars, aggVars, concVars, callVars, repoVars, fetchVars, retryVars, hudVars>>

\* _fetch_with_cache(provider_name, address, fetch_fn, normalize_fn)
FetchWithCache ==
    /\ \E provider_name \in CacheProviders, out \in FetchOutcomes,
          fetched_clock \in now..Min({now + 1, MaxTime}) :
        LET cache_key == cached_record_key(provider_name, Addr1)
            done == fetch_with_cache(store, provider_name, Addr1, out, now, fetched_clock)
            stored == done.invoked /\ out.kind = "data"
        IN  /\ store' = done.store
            /\ now' = IF done.invoked THEN fetched_clock ELSE now
            /\ history' = IF stored
                          THEN [history EXCEPT ![cache_key] =
                                    Some([at |-> fetched_clock, record |-> done.returned[1]])]
                          ELSE history
            /\ call' = [op |-> "fetch", key |-> cache_key, at |-> now,
                        done_at |-> now',
                        invoked |-> done.invoked,
                        fetched |-> IF done.invoked THEN out.kind ELSE "skipped",
                        returned |-> done.returned,
                        prior |-> history[cache_key],
                        after_absent |-> /\ call # NoResult
                                         /\ call.op = "fetch"
                                         /\ call.key = cache_key
                                         /\ call.fetched = "none"]
    /\ UNCHANGED <<ttl, mergeVars, aggVars, concVars, callVars, repoVars, fetchVars, retryVars, hudVars>>

CacheNext ==
    \/ Tick
    \/ CacheGet
    \/ CacheSet
    \/ FetchWithCache

SpecCache == CacheInit /\ [][CacheNext]_vars

----------------------------------------------------------------------------
(* Claims about the provider cache *)

\* an entry set at h.at is unexpired at clock
Unexpired(h, clock) == h # None /\ clock <= h[1].at + ttl

\* C8: after set(k, r) at time t with no later set on k, every get(k) up to
\* t + T returns r and every get(k) after t + T returns absent.
C8_TtlWindow ==
    (call # NoResult /\ call.op = "get")
        => IF Unexpired(history[call.key], call.at)
           THEN call.returned = Some(history[call.key][1].record)
           ELSE call.returned = None

\* a get made exactly T > 0 minutes after the set returned the record
C8_Witness ==
    /\ call # NoResult
    /\ call.op = "get"
    /\ ttl > 0
    /\ history[call.key] # None
    /\ call.at = history[call.key][1].at + ttl
    /\ call.returned = Some(history[call.key][1].record)

\* C9: a call of _fetch_with_cache returns the cached record without invoking
\* fetch_fn exactly when an unexpired entry exists; otherwise it invokes
\* fetch_fn, and it stores an entry only when fetch_fn returned data, so the
\* call after a fetch_fn that returned absent invokes fetch_fn again.
C9_FetchWithCache ==
    (call # NoResult /\ call.op = "fetch")
        => /\ call.invoked = ~Unexpired(call.prior, call.at)
           /\ ~call.invoked => /\ call.returned = Some(call.prior[1].record)
                               /\ history[call.key] = call.prior
           /\ (call.invoked /\ call.fetched # "data")
                  => /\ call.key \notin DOMAIN store
                     /\ call.returned = None
                     /\ history[call.key] = call.prior
           /\ (call.invoked /\ call.fetched = "data")
                  => /\ call.key \in DOMAIN store
                     /\ store[call.key] = [expires_at |-> call.done_at + ttl,
                                           record |-> call.returned[1]]
           /\ call.after_absent => call.invoked

\* a call found the entry of an earlier minute unexpired and returned it
\* without invoking fetch_fn
C9_Witness ==
    /\ call # NoResult
    /\ call.op = "fetch"
    /\ ~call.invoked
    /\ call.prior # None
    /\ call.at > call.prior[1].at
    /\ call.returned = Some(call.prior[1].record)

----------------------------------------------------------------------------
(* ProviderCache under concurrent callers: get and set take no lock, so the  *)
(* dictionary operations and the clock reads of calls on one key interleave *)

\* threads that call the cache
NumThreads == 2

\* set calls made in a run
MaxSets == 2

Threads == 1..NumThreads

SharedKey == cached_record_key("RENTCAST", Addr1)

\* a thread outside get and set
IdleThread == [pc |-> "idle", entry |-> None, settled |-> None, started |-> 0]

ConcInit ==
    /\ CallsIdle
    /\ ProvidersIdle
    /\ FetchIdle
    /\ RepoIdle
    /\ MergeIdle
    /\ AggIdle
    /\ now = 0
    /\ ttl \in 0..MaxTtl
    /\ store = EmptyMeta
    /\ history = EmptyMeta
    /\ call = NoResult
    /\ threads = [t \in Threads |-> IdleThread]
    /\ sets_started = 0
    /\ sets_done = 0
    /\ last_done = None
    /\ last_get = NoResult

\* a minute passes while the threads run
ConcTick ==
    /\ now < MaxTime
    /\ now' = now + 1
    /\ UNCHANGED <<ttl, store, history, call, concVars, mergeVars, aggVars, callVars, repoVars, fetchVars, retryVars, hudVars>>

\* the get of thread t returns: what it returned, the expiry of the entry it
\* read, the entry of the last set if every set begun had completed when the
\* get began, and whether no set began while the get ran
get_returns(t, returned, settled, started) ==
    /\ threads' = [threads EXCEPT ![t] = IdleThread]
    /\ last_get' = [thread |-> t, returned |-> returned, at |-> now,
                    settled |-> settled,
                    undisturbed |-> started = sets_started]

\* get: entry = self._store.get(key); if not entry: return None
GetLookup(t) ==
    /\ threads[t].pc = "idle"
    /\ LET settled == IF sets_started = sets_done THEN last_done ELSE None
       IN  IF SharedKey \in DOMAIN store
           THEN /\ threads' = [threads EXCEPT ![t] =
                                   [pc |-> "get_check", entry |-> Some(store[SharedKey]),
                                    settled |-> settled, started |-> sets_started]]
                /\ UNCHANGED last_get
           ELSE get_returns(t, None, settled, sets_started)
    /\ UNCHANGED <<now, ttl, store, history, call, sets_started, sets_done, last_done,
                   mergeVars, aggVars, callVars, repoVars, fetchVars, retryVars, hudVars>>

\* get: if datetime.now(UTC) > expires_at ... else return record
GetCheck(t) ==
    /\ threads[t].pc = "get_check"
    /\ IF now > threads[t].entry[1].expires_at
       THEN /\ threads' = [threads EXCEPT ![t].pc = "get_pop"]
            /\ UNCHANGED last_get
       ELSE get_returns(t, Some(threads[t].entry[1]), threads[t].settled,
                        threads[t].started)
    /\ UNCHANGED <<now, ttl, store, history, call, sets_started, sets_done, last_done,
                   mergeVars, aggVars, callVars, repoVars, fetchVars, retryVars, hudVars>>

\* get: self._store.pop(key, None); return None
GetPop(t) ==
    /\ threads[t].pc = "get_pop"
    /\ store' = store_pop(store, SharedKey)
    /\ get_returns(t, None, threads[t].settled, threads[t].started)
    /\ UNCHANGED <<now, ttl, history, call, sets_started, sets_done, last_done,
                   mergeVars, aggVars, callVars, repoVars, fetchVars, retryVars, hudVars>>

\* set: the right-hand side (datetime.now(UTC) + self.ttl, record) is evaluated
SetClock(t) ==
    /\ threads[t].pc = "idle"
    /\ sets_started < MaxSets
    /\ \E b \in BedsValues :
           threads' = [threads EXCEPT ![t] =
               [pc |-> "set_store",
                entry |-> Some([expires_at |-> now + ttl,
                                record |-> [BlankRecord("RENTCAST") EXCEPT
                                                !.fetched_at = now, !.beds = b]]),
                settled |-> None, started |-> 0]]
    /\ sets_started' = sets_started + 1
    /\ UNCHANGED <<now, ttl, store, history, call, sets_done, last_done, last_get,
                   mergeVars, aggVars, callVars, repoVars, fetchVars, retryVars, hudVars>>

\* set: self._store[key] = ...
SetStore(t) ==
    /\ threads[t].pc = "set_store"
    /\ store' = meta_put(store, SharedKey, threads[t].entry[1])
    /\ sets_done' = sets_done + 1
    /\ last_done' = threads[t].entry
    /\ threads' = [threads EXCEPT ![t] = IdleThread]
    /\ UNCHANGED <<now, ttl, history, call, sets_started, last_get, mergeVars, aggVars, callVars, repoVars, fetchVars, retryVars, hudVars>>

ConcNext ==
    \/ ConcTick
    \/ \E t \in Threads : GetLookup(t)
    \/ \E t \in Threads : GetCheck(t)
    \/ \E t \in Threads : GetPop(t)
    \/ \E t \in Threads : SetClock(t)
    \/ \E t \in Threads : SetStore(t)

SpecConc == ConcInit /\ [][ConcNext]_vars

\* C10: under any interleaving of get and set calls on one key, get never
\* returns a record whose expiry has passed, and the record of a completed set
\* is what get returns until its expiry unless a later set replaces it.
C10_ConcurrentSafe ==
    last_get # NoResult
        => /\ last_get.returned # None => last_get.at <= last_get.returned[1].expires_at
           /\ (last_get.undisturbed /\ last_get.settled # None
               /\ last_get.at <= last_get.settled[1].expires_at)
                  => last_get.returned = last_get.settled

----------------------------------------------------------------------------
(* Merge scenarios whose records carry metadata *)

MetaProviders == {"CACHED", "MD_IMAP", "RENTCAST"}

\* the meta maps of the records: two plain keys, and a key an earlier merge
\* wrote, which the CACHED record of a persisted snapshot carries along
MetaOptions ==
    { EmptyMeta,
      (<<"k1">> :> <<"a">>),
      (<<"k1">> :> <<"b">>),
      (<<"k2">> :> <<"b">>),
      (<<"k1">> :> <<"b">>) @@ (<<"k2">> :> <<"a">>),
      (source_key("property_type") :> <<"RENTCAST">>) }

MetaRecords ==
    { [BlankRecord(p) EXCEPT !.beds = b, !.meta = m] :
          p \in MetaProviders, b \in {None, Some(1000)}, m \in MetaOptions }

MergeMetaInit ==
    /\ CallsIdle
    /\ ProvidersIdle
    /\ FetchIdle
    /\ RepoIdle
    /\ CacheIdle
    /\ ConcIdle
    /\ AggIdle
    /\ records \in SeqsUpTo(MetaRecords, MaxRecords)
    /\ merged = NoResult
    /\ mpc = "input"

SpecMergeMeta == MergeMetaInit /\ [][MergeNext]_vars

\* the keys merge_property_records writes itself
ComputedKeys ==
    {source_key(f) : f \in CanonicalFields \cup CategoricalFields}
    \cup {<<"geometry.source">>, <<"dataSources">>}

\* the position of the earliest record whose meta contains key
EarliestWith(key, recs) == Min({i \in 1..Len(recs) : key \in DOMAIN recs[i].meta})

\* C11: for every key found in some input record's meta, other than the keys
\* the merge computes itself, the merged meta holds the value of the earliest
\* input record that contains the key.
C11_MetaFirstWriteWins ==
    (mpc = "merged" /\ merged.status = "ok")
        => \A key \in (UNION {DOMAIN records[i].meta : i \in 1..Len(records)})
                          \ ComputedKeys :
               /\ key \in DOMAIN merged.property.meta
               /\ merged.property.meta[key] = records[EarliestWith(key, records)].meta[key]

\* two records give different values for one key and the first one's is kept
C11_Witness ==
    /\ mpc = "merged"
    /\ merged.status = "ok"
    /\ Len(records) = 2
    /\ <<"k1">> \in DOMAIN records[1].meta
    /\ <<"k1">> \in DOMAIN records[2].meta
    /\ records[1].meta[<<"k1">>] # records[2].meta[<<"k1">>]
    /\ merged.property.meta[<<"k1">>] = records[1].meta[<<"k1">>]

\* C12: the merged meta contains the key '<field>.source' exactly for the
\* fields that were resolved, and its value is the winning provider, the
\* provider of the field's FieldSourceInfo.
C12_SourceKeys ==
    (mpc = "merged" /\ merged.status = "ok")
        => \A f \in CanonicalFields \cup CategoricalFields :
               /\ (source_key(f) \in DOMAIN merged.property.meta)
                      <=> (SourceProviders(merged, f) # {})
               /\ (f \in CanonicalFields)
                      => ((merged.property[f] # None) <=> (SourceProviders(merged, f) # {}))
               /\ (source_key(f) \in DOMAIN merged.property.meta)
                      => SourceProviders(merged, f) = {merged.property.meta[source_key(f)][1]}

----------------------------------------------------------------------------
(* Further claims about merge_property_records *)

\* the positions of the records whose provider maps to tag
TaggedAt(tag, recs) ==
    {i \in 1..Len(recs) : /\ recs[i].provider \in DOMAIN provider_to_api_source
                          /\ provider_to_api_source[recs[i].provider] = tag}

\* C13: the sources list of the merged record has no duplicates and holds, in
\* order of first appearance in the input, the ApiSource tag mapped from each
\* record's provider; a record whose provider has no mapping adds no tag.
C13_SourcesFirstSeen ==
    (mpc # "input" /\ merged.status = "ok")
        => LET sources == merged.property.sources
           IN  /\ \A i, j \in 1..Len(sources) : i # j => sources[i] # sources[j]
               /\ {sources[i] : i \in 1..Len(sources)}
                      = {provider_to_api_source[records[k].provider] :
                            k \in {n \in 1..Len(records) :
                                      records[n].provider \in DOMAIN provider_to_api_source}}
               /\ \A i, j \in 1..Len(sources) :
                      i < j => Min(TaggedAt(sources[i], records))
                                   < Min(TaggedAt(sources[j], records))

\* two records of different providers that map to one tag leave one tag
C13_Witness ==
    /\ mpc # "input"
    /\ merged.status = "ok"
    /\ Len(records) = 2
    /\ records[1].provider = "LEGACY"
    /\ records[2].provider = "CACHED"
    /\ Len(merged.property.sources) = 1
    /\ merged.property.sources[1] = provider_to_api_source["CACHED"]

\* mutant: sqft is copied from lot_sqft
normalize_property_data_sqft_from_lot(provider, property_data) ==
    [BlankRecord(provider) EXCEPT
        !.address = property_data.address,
        !.beds = property_data.beds, !.baths = property_data.baths,
        !.sqft = property_data.lot_sqft, !.lot_sqft = property_data.lot_sqft,
        !.year_built = property_data.year_built,
        !.market_value_estimate = property_data.market_value_estimate,
        !.rent_estimate = property_data.rent_estimate,
        !.annual_taxes = property_data.annual_taxes,
        !.closing_cost_estimate = property_data.closing_cost_estimate,
        !.meta = property_data.meta]

\* normalize_property_data(provider, property_data, raw)
normalize_property_data(provider, property_data) ==
    [BlankRecord(provider) EXCEPT
        !.address = property_data.address,
        !.beds = property_data.beds, !.baths = property_data.baths,
        !.sqft = property_data.sqft, !.lot_sqft = property_data.lot_sqft,
        !.year_built = property_data.year_built,
        !.market_value_estimate = property_data.market_value_estimate,
        !.rent_estimate = property_data.rent_estimate,
        !.annual_taxes = property_data.annual_taxes,
        !.closing_cost_estimate = property_data.closing_cost_estimate,
        !.meta = property_data.meta]

\* recs with record put in after position k
InsertAt(recs, k, record) ==
    SubSeq(recs, 1, k) \o <<record>> \o SubSeq(recs, k + 1, Len(recs))

\* the merged property is normalized as a CACHED record and merged together
\* with the records it came from
ReMerge ==
    /\ mpc = "merged"
    /\ merged.status = "ok"
    /\ \E k \in 0..Len(records) :
           /\ records' = InsertAt(records, k,
                                  normalize_property_data("CACHED", merged.property))
           /\ merged' = merge_property_records(records')
    /\ mpc' = "remerged"
    /\ UNCHANGED <<aggVars, cacheVars, concVars, callVars, repoVars, fetchVars, retryVars, hudVars>>

RemergeNext == Merge \/ ReMerge

SpecRemerge == MergeInit /\ [][RemergeNext]_vars

\* C14: merging the property of a merge, normalized as a CACHED record,
\* together with the original records yields the same values for all nine
\* canonical fields as the first merge.
C14_RemergeSameValues ==
    [][ (mpc = "merged" /\ mpc' = "remerged")
        => /\ merged'.status = "ok"
           /\ \A f \in CanonicalFields : merged'.property[f] = merged.property[f] ]_vars

\* a re-merge has kept a value that a record of the first merge supplied and
\* that the CACHED copy repeats
C14_Witness ==
    /\ mpc = "remerged"
    /\ merged.status = "ok"
    /\ Len(records) = 3
    /\ \E f \in CanonicalFields, i, j \in 1..Len(records) :
           /\ merged.property[f] # None
           /\ records[i].provider = "CACHED"
           /\ records[i][f] = merged.property[f]
           /\ records[j].provider \notin {"CACHED", UnknownProvider}
           /\ records[j][f] # None

\* C15: merge_property_records called with an empty list fails with
\* ValueError and returns no result.
C15_EmptyListRaises ==
    (mpc # "input" /\ records = <<>>)
        => /\ merged.status = "ValueError"
           /\ DOMAIN merged = {"status"}

\* the merge of the empty list has raised
C15_Witness ==
    /\ mpc = "merged"
    /\ records = <<>>
    /\ merged.status = "ValueError"

\* C16: for every non-empty input merge_property_records returns a result,
\* and a value the canonical record cannot accept leaves that field absent.
C16_MalformedFieldAbsent ==
    (mpc # "input" /\ records # <<>>)
        => /\ merged.status = "ok"
           /\ \A f \in CanonicalFields :
                  \/ merged.property[f] = None
                  \/ \E i \in 1..Len(records) :
                         /\ records[i][f] # None
                         /\ validate_field(f, records[i][f]).ok
                         /\ merged.property[f] = validate_field(f, records[i][f]).value

----------------------------------------------------------------------------
(* Further claims about the aggregation service *)

\* the fields a patch sets
PatchFields(patch) == {f \in CanonicalFields : patch[f] # None}

\* aggregate has returned for a service of one primary provider and nothing
\* else, called without an existing snapshot, and the provider gave a record
OnePrimaryReturned ==
    /\ apc = "returned"
    /\ existing = NoResult
    /\ Len(primary_adapters) = 1
    /\ open_data_providers = <<>>
    /\ marketplace_provider = None
    /\ last # NoResult
    /\ last.fetched = "result"

\* C17: aggregate with no existing snapshot and exactly one primary provider
\* whose record sets only beds and rent_estimate returns a snapshot in which
\* exactly those two fields are non-null and whose sources list has one tag.
C17_ScenarioD ==
    (OnePrimaryReturned
     /\ PatchFields(last.result[1].property_data[1]) = {"beds", "rent_estimate"})
        => /\ PatchFields(aggregated) = {"beds", "rent_estimate"}
           /\ aggregated.beds = last.result[1].property_data[1].beds
           /\ aggregated.rent_estimate = last.result[1].property_data[1].rent_estimate
           /\ Len(aggregated.sources) = 1

\* scenario D: the provider returned beds 3 and rent_estimate 2000
C17_Witness ==
    /\ OnePrimaryReturned
    /\ aggregated.beds = Some(3000)
    /\ aggregated.rent_estimate = Some(2000000)
    /\ PatchFields(aggregated) = {"beds", "rent_estimate"}
    /\ Len(aggregated.sources) = 1

\* the benchmarks that meta['rent_benchmarks'] of a snapshot decodes to
Benchmarks(snapshot) ==
    IF <<"rent_benchmarks">> \in DOMAIN snapshot.meta
       /\ json_loads(snapshot.meta[<<"rent_benchmarks">>]).kind = "list"
    THEN json_loads(snapshot.meta[<<"rent_benchmarks">>]).value
    ELSE <<>>

\* the benchmarks of the result of the last step, each with its provider
ReturnedBenchmarks(l) ==
    IF l.fetched # "result" THEN <<>>
    ELSE [i \in 1..Len(l.result[1].area_rent_benchmarks) |->
             <<l.result[1].provider, l.result[1].area_rent_benchmarks[i]>>]

\* C18: area rent benchmarks accumulate and are never replaced: aggregate
\* starts from the benchmarks of the existing snapshot, and every provider
\* step appends the benchmarks the provider returned, in processing order.
C18_BenchmarksAccumulate ==
    [][ /\ (apc = "start" /\ apc' # "start" /\ existing # NoResult)
            => Benchmarks(aggregated') = Benchmarks(existing)
        /\ (apc = "start" /\ apc' # "start" /\ existing = NoResult)
            => Benchmarks(aggregated') = <<>>
        /\ (apc \in Tiers /\ apc' # "raised")
            => Benchmarks(aggregated') = Benchmarks(aggregated) \o ReturnedBenchmarks(last')
        /\ (apc = "return") => aggregated' = aggregated ]_vars

\* the snapshot returned lists the benchmark of the existing snapshot and,
\* after it, those of two providers
C18_Witness ==
    /\ apc = "returned"
    /\ existing # NoResult
    /\ Len(Benchmarks(existing)) = 1
    /\ Len(Benchmarks(aggregated)) = 3
    /\ Benchmarks(aggregated)[1] = Benchmarks(existing)[1]
    /\ Benchmarks(aggregated)[2][1] # Benchmarks(aggregated)[3][1]

\* C19: whenever aggregate applies a provider result that carries a non-null
\* raw payload, the snapshot's meta contains the key '<provider>_raw', named
\* after the result's provider, holding the serialized payload.
C19_RawPayloadKey ==
    (last # NoResult /\ last.fetched = "result" /\ apc # "raised"
     /\ last.result[1].raw_payload # None)
        => /\ <<last.result[1].provider, "_raw">> \in DOMAIN aggregated.meta
           /\ aggregated.meta[<<last.result[1].provider, "_raw">>]
                  = json_dumps(last.result[1].raw_payload[1])

----------------------------------------------------------------------------
(* Repeated aggregate calls on one DataAggregationService *)

\* the number of aggregate calls made on the service
MaxCalls == 3

\* the primary loop of aggregate from adapter i on: each adapter fetches, may
\* rename itself, and its result is applied; an exception ends the call
RECURSIVE aggregate_primary(_, _, _, _)
aggregate_primary(adapters, outs, i, snapshot) ==
    IF i > Len(adapters) \/ snapshot.status # "ok"
    THEN [adapters |-> adapters, aggregated |-> snapshot]
    ELSE LET fetch == legacy_fetch_for_property(adapters[i], outs[i])
         IN  aggregate_primary([adapters EXCEPT ![i] = fetch.name], outs, i + 1,
                               apply_result(snapshot, fetch.result,
                                            try_source_enum(fetch.name), FALSE))

\* a service built with one legacy provider, kept by its caller between calls
CallsInit ==
    /\ MergeIdle
    /\ CacheIdle
    /\ ConcIdle
    /\ CallsIdle
    /\ ProvidersIdle
    /\ FetchIdle
    /\ RepoIdle
    /\ focus \in CanonicalFields
    /\ existing \in ExistingSnapshots(focus)
    /\ primary_adapters = SubSeq(PrimaryNames, 1, 1)
    /\ open_data_providers = <<>>
    /\ marketplace_provider = None
    /\ aggregated = NoResult
    /\ apc = "service"
    /\ step = 0
    /\ last = NoResult

\* service.aggregate(address, existing=existing), from entry to return; outs is
\* what each provider's fetch does during this call
ServiceCall ==
    /\ apc = "service"
    /\ Len(service_calls) < MaxCalls
    /\ \E outs \in [1..Len(primary_adapters) -> LegacyOutcomes(focus)] :
        LET done == aggregate_primary(
                        primary_adapters, outs, 1,
                        IF existing # NoResult THEN existing
                        ELSE PropertyData(Addr1, BlankValues, EmptyMeta, <<>>, <<>>))
        IN  /\ primary_adapters' = done.adapters
            /\ aggregated' = done.aggregated
            /\ service_calls' = Append(service_calls,
                                       [responses |-> outs, returned |-> done.aggregated])
    /\ UNCHANGED <<focus, existing, open_data_providers, marketplace_provider,
                   apc, step, last, mergeVars, cacheVars, concVars, repoVars, fetchVars, retryVars, hudVars>>

CallsNext == ServiceCall

SpecCalls == CallsInit /\ [][CallsNext]_vars

\* what two snapshots are compared on: fields, meta, sources, provenance providers
SnapshotView(snapshot) ==
    IF snapshot.status # "ok" THEN <<snapshot.status>>
    ELSE << [f \in CanonicalFields |-> snapshot[f]], snapshot.meta, snapshot.sources,
            [k \in DOMAIN snapshot.provenance |-> snapshot.provenance[k].provider] >>

\* C20: two aggregate calls on the same service with the same address, the same
\* existing snapshot and the same provider responses return equal snapshots
\* (fields, meta, sources, provenance providers), whatever the providers
\* returned in the calls made before.
C20_NoStateBetweenCalls ==
    \A i, j \in 1..Len(service_calls) :
        service_calls[i].responses = service_calls[j].responses
            => SnapshotView(service_calls[i].returned)
                   = SnapshotView(service_calls[j].returned)

----------------------------------------------------------------------------
(* services/persistence.py: PropertyRepository *)

\* str.upper() on the texts of the model, token by token
upper_token(token) ==
    CASE token = "1 Main St" -> "1 MAIN ST"
      [] token = "Austin"    -> "AUSTIN"
      [] token = "tx"        -> "TX"
      [] OTHER               -> token

str_upper(text) == [i \in 1..Len(text) |-> upper_token(text[i])]

\* str.strip(): leading and trailing blanks are removed
RECURSIVE str_strip(_)
str_strip(text) ==
    IF text = <<>> THEN text
    ELSE IF text[1] = " " THEN str_strip(Tail(text))
    ELSE IF text[Len(text)] = " " THEN str_strip(SubSeq(text, 1, Len(text) - 1))
    ELSE text

\* mutant: the texts are kept as the caller wrote them
normalize_address_verbatim(address) == address

\* persistence._normalize_address, data_fetch.normalize_address
normalize_address(address) ==
    [line1 |-> str_upper(str_strip(address.line1)),
     city |-> str_upper(str_strip(address.city)),
     state |-> str_upper(str_strip(address.state)),
     zip |-> str_strip(address.zip)]

\* json.dumps(payload, separators, sort_keys=True): a text, not the dict
serialise_json(payload) == <<"json", payload>>

\* {} for an empty text, for a text that is not JSON and for JSON that is no dict
deserialise_json(raw) ==
    IF raw = <<>> THEN EmptyMeta
    ELSE IF raw[1] = "json" THEN raw[2]
    ELSE EmptyMeta

\* SELECT * FROM properties WHERE line1 = ? AND city = ? AND state = ? AND zip = ?
get_record(rows, address) ==
    IF address \in DOMAIN rows THEN Some(rows[address]) ELSE None

\* the sources of the enumeration ApiSource in the order ORDER BY source gives
SortedSources == <<"attom", "closingcorp", "estated", "hud_fmr", "marketplace_comps",
                   "mass_gis", "md_imap", "mock", "redfin", "rentcast", "rentometer",
                   "zillow">>

\* PropertyRepository._record_to_domain: a source that ApiSource does not
\* define is ignored; provenance is not stored
record_to_domain(address, row) ==
    PropertyData(address, row.vals, deserialise_json(row.meta),
                 SelectSeq(SortedSources, LAMBDA source : source \in row.sources),
                 <<>>)

\* PropertyRepository.get_property
get_property(rows, address) ==
    LET normalized == normalize_address(address)
    IN  IF get_record(rows, normalized) = None THEN NoResult
        ELSE record_to_domain(normalized, rows[normalized])

\* mutant: the stored meta is replaced by the incoming meta
merge_meta_replacing(record, new_meta) == new_meta

\* PropertyRepository._merge_meta (the values of PropertyData.meta are str,
\* none of them is None)
merge_meta(record, new_meta) ==
    meta_update(IF record # None THEN deserialise_json(record[1].meta) ELSE EmptyMeta,
                new_meta)

\* PropertyRepository._replace_sources: sorted({source.value for source in sources})
replace_sources(sources) == {sources[i] : i \in 1..Len(sources)}

\* PropertyRepository.upsert_property: INSERT or UPDATE of the row of the
\* normalized address, then the sources rows are replaced
upsert_property(rows, data) ==
    LET normalized == normalize_address(data.address)
        record == get_record(rows, normalized)
        row == [vals |-> [f \in CanonicalFields |-> data[f]],
                meta |-> serialise_json(merge_meta(record, data.meta)),
                sources |-> replace_sources(data.sources)]
        stored == [a \in DOMAIN rows \cup {normalized} |->
                      IF a = normalized THEN row ELSE rows[a]]
    IN  [rows |-> stored, returned |-> record_to_domain(normalized, row)]

Addr2 == [line1 |-> <<"2 OAK AVE">>, city |-> <<"AUSTIN">>, state |-> <<"TX">>,
          zip |-> <<"78702">>]

\* addresses as callers write them
RawAddresses ==
    { Addr1, Addr2,
      [line1 |-> <<" ", "1 Main St">>, city |-> <<"Austin", " ">>, state |-> <<"tx">>,
       zip |-> <<"78701", " ">>] }

\* the records a caller may hand to upsert_property
RepoRecords ==
    { PropertyData(address, vals, meta, sources, <<>>) :
        address \in RawAddresses,
        vals \in { BlankValues, [BlankValues EXCEPT !.beds = Some(1000)],
                   [BlankValues EXCEPT !.beds = Some(2500), !.sqft = Some(1000)] },
        meta \in { EmptyMeta, (<<"k1">> :> <<"a">>), (<<"k1">> :> <<"b">>),
                   (<<"k2">> :> <<"b">>) },
        sources \in { <<>>, <<"rentcast", "estated">>, <<"mock", "mock">> } }

RepoInit ==
    /\ MergeIdle
    /\ AggIdle
    /\ CacheIdle
    /\ ConcIdle
    /\ CallsIdle
    /\ ProvidersIdle
    /\ FetchIdle
    /\ db = <<>>
    /\ last_upsert = NoResult

\* repository.upsert_property(data)
Upsert ==
    /\ \E data \in RepoRecords :
        \E done \in {upsert_property(db, data)} :
            /\ db' = done.rows
            /\ last_upsert' = [status |-> "ok", data |-> data,
                               found |-> get_record(db, normalize_address(data.address)) # None,
                               returned |-> done.returned]
    /\ UNCHANGED <<mergeVars, aggVars, cacheVars, concVars, callVars, fetchVars, retryVars, hudVars>>

RepoNext == Upsert

SpecRepo == RepoInit /\ [][RepoNext]_vars

SourceSet(sources) == {sources[i] : i \in 1..Len(sources)}

\* C21: after upsert_property(r) the record stored for r's normalized address
\* equals r in the nine fields, the meta and the set of sources, whatever was
\* stored for that address before, and the same upsert applied a second time
\* changes nothing.
C21_ReplaceByAddress ==
    last_upsert # NoResult
        => LET r == last_upsert.data
               stored == get_property(db, normalize_address(r.address))
           IN  /\ stored # NoResult
               /\ \A f \in CanonicalFields : stored[f] = r[f]
               /\ stored.meta = r.meta
               /\ SourceSet(stored.sources) = SourceSet(r.sources)
               /\ upsert_property(db, r).rows = db

----------------------------------------------------------------------------
(* services/data_fetch.py: fetch_property *)

\* the number of fetch_property calls of one scenario
MaxFetches == 2

\* the order in which _configured_providers appends the providers whose key is
\* set; _resolve_sources names each adapter after its provider class
ProviderKeyOrder == <<"zillow", "rentometer", "estated", "rentcast", "redfin", "attom",
                      "closingcorp">>

configured_providers(settings) ==
    SelectSeq(ProviderKeyOrder, LAMBDA key : key \in settings.keys)

\* _build_aggregation_service
build_aggregation_service(settings, providers) ==
    [primary_adapters |-> providers,
     open_data_providers |-> IF settings.hud THEN <<"hud_fmr">> ELSE <<>>,
     marketplace_provider |-> IF settings.marketplace THEN Some(MarketplaceName) ELSE None]

\* mutant: the open-data providers overwrite like primary providers
RECURSIVE aggregate_open_data_overwriting(_, _, _, _)
aggregate_open_data_overwriting(providers, outs, i, snapshot) ==
    IF snapshot.status # "ok" \/ i > Len(providers) THEN snapshot
    ELSE IF outs[i].kind = "raise" THEN [status |-> "Exception"]
    ELSE aggregate_open_data_overwriting(providers, outs, i + 1,
             apply_result(snapshot,
                          IF outs[i].kind = "result" THEN Some(outs[i].result) ELSE None,
                          try_source_enum(providers[i]), FALSE))

\* the second loop of aggregate: an exception of a provider leaves aggregate
RECURSIVE aggregate_open_data(_, _, _, _)
aggregate_open_data(providers, outs, i, snapshot) ==
    IF snapshot.status # "ok" \/ i > Len(providers) THEN snapshot
    ELSE IF outs[i].kind = "raise" THEN [status |-> "Exception"]
    ELSE aggregate_open_data(providers, outs, i + 1,
             apply_result(snapshot,
                          IF outs[i].kind = "result" THEN Some(outs[i].result) ELSE None,
                          try_source_enum(providers[i]), TRUE))

\* DataAggregationService.aggregate on a service built for this call
aggregate_marketplace(service, outs, open) ==
    IF open.status # "ok" \/ service.marketplace_provider = None THEN open
    ELSE IF outs.marketplace.kind = "raise" THEN [status |-> "Exception"]
    ELSE apply_result(open,
                      IF outs.marketplace.kind = "result"
                      THEN Some(outs.marketplace.result) ELSE None,
                      Some(MarketplaceName), TRUE)

aggregate(service, address, existing_, outs) ==
    aggregate_marketplace(service, outs,
        aggregate_open_data(service.open_data_providers, outs.open_data, 1,
            aggregate_primary(service.primary_adapters, outs.primary, 1,
                IF existing_ # NoResult THEN existing_
                ELSE PropertyData(address, BlankValues, EmptyMeta, <<>>, <<>>)).aggregated))

\* the clients of _collect_normalized_records in the order they are asked, and
\* the settings key that enables each (the addresses of the model are in
\* neither MD nor MA, so the two state assessors are not asked)
ClientOrder == <<"RENTCAST", "ESTATED">>

client_key(client) == IF client = "RENTCAST" THEN "rentcast" ELSE "estated"

\* the client calls of _collect_normalized_records from client i on; an
\* exception of a client call leaves the function
RECURSIVE collect_clients(_, _, _, _, _, _, _)
collect_clients(settings, address, outs, i, st, clock, recs) ==
    IF i > Len(ClientOrder) THEN [status |-> "ok", store |-> st, records |-> recs]
    ELSE IF client_key(ClientOrder[i]) \notin settings.keys
    THEN collect_clients(settings, address, outs, i + 1, st, clock, recs)
    ELSE LET record == fetch_with_cache(st, ClientOrder[i], address,
                                        outs.clients[ClientOrder[i]], clock, clock)
         IN  IF record.status # "ok"
             THEN [status |-> "Exception", store |-> record.store, records |-> recs]
             ELSE collect_clients(settings, address, outs, i + 1, record.store, clock,
                                  IF record.returned # None
                                  THEN Append(recs, record.returned[1]) ELSE recs)

\* _collect_normalized_records: the persisted snapshot comes first, as CACHED
collect_normalized_records(settings, address, cached, outs, st, clock) ==
    collect_clients(settings, address, outs, 1, st, clock,
                    IF cached # NoResult
                    THEN <<normalize_property_data("CACHED", cached)>> ELSE <<>>)

\* any(key.lower().endswith("_raw") for key in cached.meta)
has_raw_payload(meta) == \E key \in DOMAIN meta : key[Len(key)] = "_raw"

\* any of the nine fields is not None, or the meta is not empty
has_payload(snapshot) ==
    \/ \E f \in CanonicalFields : snapshot[f] # None
    \/ DOMAIN snapshot.meta # {}

\* MockProvider().fetch(address)
mock_fetch(address) ==
    PropertyData(address,
                 [beds |-> Some(3000), baths |-> Some(2000), sqft |-> Some(1600000),
                  lot_sqft |-> Some(6000000), year_built |-> Some(1995000),
                  market_value_estimate |-> Some(375000000),
                  rent_estimate |-> Some(2450000), annual_taxes |-> Some(4200000),
                  closing_cost_estimate |-> Some(8000000)],
                 EmptyMeta, <<"mock">>, <<>>)

\* how a call of fetch_property ends: what it returns or that it raises, the
\* rows and the provider cache it leaves, whether MockProvider was invoked and
\* the records it passed to merge_property_records
fetch_outcome(status, returned, rows, st, mock_invoked, recs) ==
    [status |-> status, returned |-> returned, rows |-> rows, store |-> st,
     mock_invoked |-> mock_invoked, records |-> recs]

\* result = MockProvider().fetch(address); repository.upsert_property(result)
fetch_mock(address, rows, st, recs) ==
    fetch_outcome("ok", mock_fetch(address), upsert_property(rows, mock_fetch(address)).rows,
                  st, TRUE, recs)

\* fetch_property from line 323 on: what it does with the aggregated snapshot
fetch_after_aggregate(aggregated_, address, use_mock_if_empty, cached, rows, st, recs) ==
    IF aggregated_.status # "ok"
    THEN fetch_outcome("Exception", NoResult, rows, st, FALSE, recs)
    ELSE IF has_payload(aggregated_)
    THEN fetch_outcome("ok", aggregated_,
                       upsert_property(rows, aggregated_).rows, st, FALSE, recs)
    ELSE IF cached # NoResult
    THEN fetch_outcome("ok", cached, rows, st, FALSE, recs)
    ELSE IF use_mock_if_empty THEN fetch_mock(address, rows, st, recs)
    ELSE fetch_outcome("ok", NoResult, rows, st, FALSE, recs)

\* fetch_property from line 307 on: the aggregation service and the fall backs
fetch_aggregated(settings, address, use_mock_if_empty, cached, rows, st, outs, recs) ==
    LET providers == configured_providers(settings)
        service == build_aggregation_service(settings, providers)
    IN  IF providers = <<>> /\ service.open_data_providers = <<>>
           /\ service.marketplace_provider = None
        THEN IF cached # NoResult THEN fetch_outcome("ok", cached, rows, st, FALSE, recs)
             ELSE IF use_mock_if_empty THEN fetch_mock(address, rows, st, recs)
             ELSE fetch_outcome("ok", NoResult, rows, st, FALSE, recs)
        ELSE fetch_after_aggregate(aggregate(service, address, cached, outs), address,
                                   use_mock_if_empty, cached, rows, st, recs)

\* fetch_property from line 297 on: the merge of the collected records, when
\* one of them is not the persisted snapshot, and what follows it
fetch_merged(settings, normalized_address, use_mock_if_empty, cached, rows, outs, collected, merged_, passed) ==
    IF collected.status # "ok"
    THEN fetch_outcome("Exception", NoResult, rows, collected.store, FALSE, <<>>)
    ELSE IF merged_.status = "ok"
    THEN fetch_outcome("ok", merged_.property,
                       upsert_property(rows, merged_.property).rows,
                       collected.store, FALSE, passed)
    ELSE fetch_aggregated(settings, normalized_address, use_mock_if_empty, cached,
                          rows, collected.store, outs, passed)

\* any(record.provider != "CACHED" for record in records)
has_live_records(recs) ==
    \E i \in 1..Len(recs) : recs[i].provider # "CACHED"

\* fetch_property from line 295 on, with the records it collected
fetch_collected(settings, normalized_address, use_mock_if_empty, cached, rows, outs, collected) ==
    fetch_merged(settings, normalized_address, use_mock_if_empty, cached, rows, outs,
                 collected,
                 IF collected.status = "ok" /\ has_live_records(collected.records)
                 THEN merge_property_records(collected.records)
                 ELSE [status |-> "skipped"],
                 IF has_live_records(collected.records) THEN collected.records ELSE <<>>)

\* fetch_property from line 278 on, with the persisted snapshot it read
fetch_cached(settings, normalized_address, use_mock_if_empty, cached, rows, st, clock, outs) ==
    IF cached # NoResult /\ has_raw_payload(cached.meta)
    THEN fetch_outcome("ok", cached, rows, st, FALSE, <<>>)
    ELSE fetch_collected(settings, normalized_address, use_mock_if_empty, cached, rows,
                         outs,
                         collect_normalized_records(settings, normalized_address, cached,
                                                    outs, st, clock))

\* fetch_property(address, use_mock_if_empty) at clock, with the repository rows
\* and the provider cache st; outs is what each client and provider does
fetch_property(settings, address, use_mock_if_empty, rows, st, clock, outs) ==
    fetch_cached(settings, normalize_address(address), use_mock_if_empty,
                 get_property(rows, normalize_address(address)), rows, st, clock, outs)

\* the address of a provider payload that names the request's property in the
\* provider's own words
PayloadAddress == [line1 |-> <<"1 MAIN STREET">>, city |-> <<"AUSTIN">>,
                   state |-> <<"TX">>, zip |-> <<"78701">>]

\* what get_by_address of a client may do: raise while parsing, return None,
\* or return a record, whose address is the payload's
ClientOutcomes(address) ==
    { [kind |-> "raise"], [kind |-> "none"],
      [kind |-> "data", data |-> [address |-> address, beds |-> Some(1000)]],
      [kind |-> "data", data |-> [address |-> address, beds |-> Some(-1000)]],
      [kind |-> "data", data |-> [address |-> PayloadAddress, beds |-> Some(1000)]] }

\* what fetch of a configured provider may do; a provider lists itself as source
FetchProviderOutcomes(name, address) ==
    { [kind |-> "raise"], [kind |-> "none"],
      [kind |-> "data",
       data |-> PropertyData(address, [BlankValues EXCEPT !.beds = Some(1000)],
                             EmptyMeta, <<name>>, <<>>)],
      [kind |-> "data",
       data |-> PropertyData(address, [BlankValues EXCEPT !.beds = Some(2000)],
                             (<<name, "_raw">> :> <<"payload">>), <<name>>, <<>>)] }

\* what HudFmrProvider.fetch_for_property may do: its result has benchmarks only
HudOutcomes ==
    { [kind |-> "raise"], [kind |-> "none"],
      [kind |-> "result",
       result |-> [provider |-> "hud_fmr", property_data |-> None,
                   area_rent_benchmarks |-> <<"2br">>, raw_payload |-> Some(<<"payload">>)]] }

\* what the clients and providers of the settings do during one call; a
\* client or provider that is not configured is not asked
FetchOuts(settings, address) ==
    LET providers == configured_providers(settings)
        normalized == normalize_address(address)
    IN  { [clients |-> clients, primary |-> primary, open_data |-> open_data,
           marketplace |-> [kind |-> "none"]] :
            clients \in { c \in [{"RENTCAST", "ESTATED"} -> ClientOutcomes(normalized)] :
                            \A name \in DOMAIN c :
                                client_key(name) \notin settings.keys
                                    => c[name] = [kind |-> "none"] },
            primary \in { outs \in [1..Len(providers) ->
                                       UNION {FetchProviderOutcomes(providers[k], normalized)
                                              : k \in 1..Len(providers)}] :
                            \A k \in 1..Len(providers) :
                                outs[k] \in FetchProviderOutcomes(providers[k], normalized) },
            open_data \in [1..(IF settings.hud THEN 1 ELSE 0) -> HudOutcomes] }

\* the settings of a deployment: no key, the Rentcast key, the Zillow key, or
\* the HUD base url
FetchSettings ==
    { [keys |-> {}, hud |-> FALSE, marketplace |-> FALSE],
      [keys |-> {"rentcast"}, hud |-> FALSE, marketplace |-> FALSE],
      [keys |-> {"zillow"}, hud |-> FALSE, marketplace |-> FALSE],
      [keys |-> {}, hud |-> TRUE, marketplace |-> FALSE] }

\* a snapshot persisted by an earlier deployment, without a raw payload
PersistedSnapshot ==
    PropertyData(Addr1, [BlankValues EXCEPT !.beds = Some(2500), !.sqft = Some(1000)],
                 (<<"initial">> :> <<"true">>), <<"estated">>, <<>>)

FetchInit ==
    /\ MergeIdle
    /\ AggIdle
    /\ ConcIdle
    /\ CallsIdle
    /\ ProvidersIdle
    /\ now = 0
    /\ ttl = 1
    /\ store = EmptyMeta
    /\ history = EmptyMeta
    /\ call = NoResult
    /\ last_upsert = NoResult
    /\ db \in {<<>>, upsert_property(<<>>, PersistedSnapshot).rows}
    /\ fetch_env \in [status : {"ok"}, settings : FetchSettings,
                      address : {a \in RawAddresses : normalize_address(a) = Addr1},
                      use_mock_if_empty : BOOLEAN]
    /\ fetch_log = <<>>

\* a minute passes between two calls
FetchTick ==
    /\ fetch_log # <<>>
    /\ now <= ttl
    /\ Len(fetch_log) < MaxFetches
    /\ now' = now + 1
    /\ UNCHANGED <<ttl, store, history, call, mergeVars, aggVars, concVars, callVars,
                   repoVars, fetchVars, retryVars, hudVars>>

\* fetch_property(address, use_mock_if_empty), from entry to return or raise
FetchProperty ==
    /\ Len(fetch_log) < MaxFetches
    /\ \E outs \in FetchOuts(fetch_env.settings, fetch_env.address) :
        \E done \in {fetch_property(fetch_env.settings, fetch_env.address,
                                   fetch_env.use_mock_if_empty, db, store, now, outs)} :
            /\ db' = done.rows
            /\ store' = done.store
            /\ fetch_log' = Append(fetch_log,
                   [outs |-> outs,
                    cached |-> get_property(db, fetch_env.address),
                    stored |-> get_property(done.rows, fetch_env.address),
                    status |-> done.status,
                    returned |-> done.returned,
                    mock_invoked |-> done.mock_invoked,
                    records |-> done.records,
                    clock |-> now])
    /\ UNCHANGED <<now, ttl, history, call, last_upsert, fetch_env, mergeVars, aggVars,
                   concVars, callVars, retryVars, hudVars>>

FetchNext ==
    \/ FetchTick
    \/ FetchProperty

SpecFetch == FetchInit /\ [][FetchNext]_vars

\* a client or a provider of the settings handed data to the call
ProducedData(entry) ==
    \/ entry.records # <<>>
    \/ \E name \in DOMAIN entry.outs.clients :
           /\ client_key(name) \in fetch_env.settings.keys
           /\ entry.outs.clients[name].kind = "data"
    \/ \E k \in DOMAIN entry.outs.primary : entry.outs.primary[k].kind = "data"
    \/ \E k \in DOMAIN entry.outs.open_data : entry.outs.open_data[k].kind = "result"

\* C22: fetch_property returns MockProvider data only when use_mock_if_empty is
\* true, no snapshot is persisted for the normalized address and no provider
\* produced any data; when a snapshot is persisted and the providers produce
\* nothing new it returns the values and sources of the persisted snapshot;
\* when a configured provider returns data the mock provider is never invoked.
C22_FallbackOrder ==
    \A i \in 1..Len(fetch_log) :
        LET entry == fetch_log[i]
        IN  /\ entry.mock_invoked
                => /\ fetch_env.use_mock_if_empty
                   /\ entry.cached = NoResult
                   /\ ~ProducedData(entry)
            /\ (entry.status = "ok" /\ entry.cached # NoResult /\ ~ProducedData(entry))
                => /\ entry.returned # NoResult
                   /\ \A f \in CanonicalFields : entry.returned[f] = entry.cached[f]
                   /\ entry.returned.sources = entry.cached.sources

----------------------------------------------------------------------------
(* data_providers/marketplace.py: MarketplaceCompsProvider._request_with_retry *)

\* the provider is built with max_retries from 0 to MaxRetries
MaxRetries == 3

\* what httpx.post may do: a response with a status code, or a RequestError
PostOutcomes == {"200", "404", "429", "503", "ConnectError", "ReadTimeout"}

RequestErrors == {"ConnectError", "ReadTimeout"}

\* mutant: a request that failed is tried again without being counted
request_step_uncounted(loop, outcome) ==
    LET posted == [loop EXCEPT !.posts = @ + 1, !.outcomes = Append(@, outcome)]
    IN  IF outcome = "429" /\ loop.attempt < loop.max_retries
        THEN [posted EXCEPT !.attempt = @ + 1]
        ELSE IF outcome = "200"
        THEN [posted EXCEPT !.pc = "done", !.result = Some(outcome)]
        ELSE IF outcome \in RequestErrors
        THEN posted
        ELSE [posted EXCEPT !.pc = "done", !.result = None]

\* one turn of the while loop: the POST, then the status code is looked at
request_step(loop, outcome) ==
    LET posted == [loop EXCEPT !.posts = @ + 1, !.outcomes = Append(@, outcome)]
    IN  IF outcome = "429" /\ loop.attempt < loop.max_retries
        THEN [posted EXCEPT !.attempt = @ + 1]
        ELSE IF outcome = "200"
        THEN [posted EXCEPT !.pc = "done", !.result = Some(outcome)]
        ELSE IF outcome \in RequestErrors
        THEN [posted EXCEPT !.attempt = @ + 1]
        ELSE [posted EXCEPT !.pc = "done", !.result = None]

RetryInit ==
    /\ MergeIdle
    /\ AggIdle
    /\ CacheIdle
    /\ ConcIdle
    /\ CallsIdle
    /\ RepoIdle
    /\ FetchIdle
    /\ hud_cache = EmptyMeta
    /\ hud_success = EmptyMeta
    /\ hud_last = NoResult
    /\ \E max_retries \in 0..MaxRetries :
           retry = [status |-> "ok", pc |-> "loop", max_retries |-> max_retries,
                    attempt |-> 0, posts |-> 0, outcomes |-> <<>>, result |-> None]

\* while attempt <= self.max_retries: the body of the loop runs once
RetryPost ==
    /\ retry.pc = "loop"
    /\ retry.attempt <= retry.max_retries
    /\ retry.posts <= MaxRetries + 1
    /\ \E outcome \in PostOutcomes : retry' = request_step(retry, outcome)
    /\ UNCHANGED <<mergeVars, aggVars, cacheVars, concVars, callVars, repoVars, fetchVars,
                   hudVars>>

\* the loop is left with the retries used up: return None
RetryExhausted ==
    /\ retry.pc = "loop"
    /\ retry.attempt > retry.max_retries
    /\ retry' = [retry EXCEPT !.pc = "done", !.result = None]
    /\ UNCHANGED <<mergeVars, aggVars, cacheVars, concVars, callVars, repoVars, fetchVars,
                   hudVars>>

RetryNext ==
    \/ RetryPost
    \/ RetryExhausted

\* the loop is sequential code: a turn that can be taken is taken
SpecRetry == RetryInit /\ [][RetryNext]_vars /\ WF_vars(RetryNext)

\* C23: _request_with_retry terminates for every sequence of responses after at
\* most max_retries + 1 POST requests; a 429 response is retried while retries
\* remain, and a successful response arriving within that budget is returned.
C23_RetryTerminates ==
    /\ [](retry.posts <= retry.max_retries + 1)
    /\ []((retry.posts > 0 /\ retry.outcomes[retry.posts] = "429"
           /\ retry.posts <= retry.max_retries) => retry.pc = "loop")
    /\ []((retry.posts > 0 /\ retry.outcomes[retry.posts] = "200")
              => (retry.pc = "done" /\ retry.result = Some("200")))
    /\ <>(retry.pc = "done")

\* 429 then 200 with max_retries = 1 yields the 200 response
C23_Witness ==
    /\ retry # NoResult
    /\ retry.max_retries = 1
    /\ retry.outcomes = <<"429", "200">>
    /\ retry.pc = "done"
    /\ retry.result = Some("200")

----------------------------------------------------------------------------
(* data_providers/hud_fmr.py: HudFmrProvider.fetch_for_area *)

\* the ZIP codes of the areas asked for; the empty text is a missing ZIP
ZipCodes == {<<>>, <<"78701">>, <<"78702">>}

\* what the HTTP request of fetch_for_area may meet: an error status, a failed
\* request, a body that is not JSON, JSON without rents, a JSON array, or one
\* of two payloads with rents
HudResponses == {"HTTPStatusError", "RequestError", "not json", "no rents", "array",
                 "rents 2024", "rents 2025"}

\* the ProviderResult built from a payload with rents
hud_result(response) ==
    [provider |-> "hud_fmr", property_data |-> None,
     area_rent_benchmarks |-> <<response>>, raw_payload |-> Some(<<response>>)]

\* mutant: an entry is taken as expired at its expiry time already
cached_response_expired_at_expiry(cache, zip_code, clock) ==
    IF zip_code \notin DOMAIN cache THEN [cache |-> cache, returned |-> None]
    ELSE IF clock >= cache[zip_code].expires_at
         THEN [cache |-> store_pop(cache, zip_code), returned |-> None]
         ELSE [cache |-> cache, returned |-> Some(cache[zip_code].result)]

\* HudFmrProvider._cached_response: the cache it leaves and what it returns
cached_response(cache, zip_code, clock) ==
    IF zip_code \notin DOMAIN cache THEN [cache |-> cache, returned |-> None]
    ELSE IF clock > cache[zip_code].expires_at
         THEN [cache |-> store_pop(cache, zip_code), returned |-> None]
         ELSE [cache |-> cache, returned |-> Some(cache[zip_code].result)]

\* HudFmrProvider._cache_result
cache_result(cache, zip_code, result, clock, cache_ttl_min) ==
    meta_put(cache, zip_code, [expires_at |-> clock + cache_ttl_min, result |-> result])

\* mutant: what the request got is stored whether it has rents or not
fetch_for_area_stores_all(cache, zip_code, clock, response, fetched_clock, cache_ttl_min) ==
    IF zip_code = <<>>
    THEN [status |-> "ok", cache |-> cache, returned |-> None, requested |-> FALSE]
    ELSE LET cached == cached_response(cache, zip_code, clock)
         IN  IF cached.returned # None
             THEN [status |-> "ok", cache |-> cached.cache, returned |-> cached.returned,
                   requested |-> FALSE]
             ELSE IF response = "array"
             THEN [status |-> "AttributeError", cache |-> cached.cache, returned |-> None,
                   requested |-> TRUE]
             ELSE [status |-> "ok",
                   cache |-> cache_result(cached.cache, zip_code, hud_result(response),
                                          fetched_clock, cache_ttl_min),
                   returned |-> IF response \in {"rents 2024", "rents 2025"}
                                THEN Some(hud_result(response)) ELSE None,
                   requested |-> TRUE]

\* HudFmrProvider.fetch_for_area, called at clock; the response, when a request
\* is made, is at hand at fetched_clock
fetch_for_area(cache, zip_code, clock, response, fetched_clock, cache_ttl_min) ==
    IF zip_code = <<>>
    THEN [status |-> "ok", cache |-> cache, returned |-> None, requested |-> FALSE]
    ELSE LET cached == cached_response(cache, zip_code, clock)
         IN  IF cached.returned # None
             THEN [status |-> "ok", cache |-> cached.cache, returned |-> cached.returned,
                   requested |-> FALSE]
             ELSE IF response \in {"HTTPStatusError", "RequestError", "not json", "no rents"}
             THEN [status |-> "ok", cache |-> cached.cache, returned |-> None,
                   requested |-> TRUE]
             ELSE IF response = "array"
             THEN [status |-> "AttributeError", cache |-> cached.cache, returned |-> None,
                   requested |-> TRUE]
             ELSE [status |-> "ok",
                   cache |-> cache_result(cached.cache, zip_code, hud_result(response),
                                          fetched_clock, cache_ttl_min),
                   returned |-> Some(hud_result(response)), requested |-> TRUE]

HudInit ==
    /\ MergeIdle
    /\ AggIdle
    /\ ConcIdle
    /\ CallsIdle
    /\ RepoIdle
    /\ FetchIdle
    /\ retry = NoResult
    /\ now = 0
    /\ ttl \in 0..MaxTtl
    /\ store = EmptyMeta
    /\ history = EmptyMeta
    /\ call = NoResult
    /\ hud_cache = EmptyMeta
    /\ hud_success = EmptyMeta
    /\ hud_last = NoResult

\* a minute passes
HudTick ==
    /\ now < MaxTime
    /\ now' = now + 1
    /\ UNCHANGED <<ttl, store, history, call, mergeVars, aggVars, concVars, callVars,
                   repoVars, fetchVars, retryVars, hudVars>>

\* provider.fetch_for_area(area)
HudFetch ==
    /\ \E zip_code \in ZipCodes, response \in HudResponses,
          fetched_clock \in now..Min({now + 1, MaxTime}) :
        LET done == fetch_for_area(hud_cache, zip_code, now, response, fetched_clock, ttl)
            got_rents == done.requested /\ done.returned # None
        IN  /\ hud_cache' = done.cache
            /\ now' = IF done.requested THEN fetched_clock ELSE now
            /\ hud_success' = IF got_rents
                              THEN meta_put(hud_success, zip_code,
                                            [at |-> fetched_clock, result |-> done.returned[1]])
                              ELSE hud_success
            /\ hud_last' = [status |-> done.status, zip |-> zip_code, at |-> now,
                            requested |-> done.requested, returned |-> done.returned,
                            response |-> IF done.requested THEN response ELSE "skipped",
                            prior |-> IF zip_code \in DOMAIN hud_success
                                      THEN Some(hud_success[zip_code]) ELSE None]
    /\ UNCHANGED <<ttl, store, history, call, mergeVars, aggVars, concVars, callVars,
                   repoVars, fetchVars, retryVars>>

HudNext ==
    \/ HudTick
    \/ HudFetch

SpecHud == HudInit /\ [][HudNext]_vars

\* the last fetch was made within cache_ttl_min of a fetch for the same ZIP
\* that got benchmarks over HTTP
WithinTtlOfSuccess ==
    /\ hud_last.prior # None
    /\ hud_last.at <= hud_last.prior[1].at + ttl

\* C24: within cache_ttl_min of a successful fetch for a ZIP, every further
\* fetch for that ZIP returns the cached result without an HTTP request; a
\* failed or empty response stores nothing, so the next fetch issues a new
\* request.
C24_HudCachePerZip ==
    (hud_last # NoResult /\ hud_last.zip # <<>>)
        => /\ WithinTtlOfSuccess
               => (~hud_last.requested /\ hud_last.returned = Some(hud_last.prior[1].result))
           /\ ~WithinTtlOfSuccess => hud_last.requested
           /\ (hud_last.requested /\ hud_last.returned = None)
               => hud_last.zip \notin DOMAIN hud_cache

\* a fetch a minute after a successful one is answered from the cache, while
\* the other ZIP has no entry
C24_Witness ==
    /\ hud_last # NoResult
    /\ hud_last.zip = <<"78701">>
    /\ ~hud_last.requested
    /\ hud_last.prior # None
    /\ hud_last.at > hud_last.prior[1].at
    /\ hud_last.returned = Some(hud_last.prior[1].result)
    /\ <<"78702">> \notin DOMAIN hud_cache

\* C25: fetch_property never fails because a provider client call fails: an
\* exception raised while reaching or parsing one provider's response in the
\* cached-fetch path is treated as that provider returning no data and does
\* not propagate to the caller of fetch_property.
C25_ClientFailureContained ==
    \A i \in 1..Len(fetch_log) :
        (\A k \in DOMAIN fetch_log[i].outs.open_data :
             fetch_log[i].outs.open_data[k].kind # "raise")
            => fetch_log[i].status = "ok"

----------------------------------------------------------------------------
(* One aggregate call seen as a whole, with what every provider answered *)

\* a service with up to MaxProviders providers over the three tiers, as AggInit
\* builds it, before its one call
TiersInit ==
    /\ MergeIdle
    /\ CacheIdle
    /\ ConcIdle
    /\ CallsIdle
    /\ RepoIdle
    /\ FetchIdle
    /\ ProvidersIdle
    /\ focus \in CanonicalFields
    /\ existing \in {snapshot \in ExistingSnapshots(focus) :
                        snapshot = NoResult \/ snapshot[focus] # None}
    /\ \E np \in 0..Min({MaxProviders, Len(PrimaryNames)}) :
       \E no \in 0..Min({MaxProviders - np, Len(OpenDataNames)}) :
           /\ primary_adapters = SubSeq(PrimaryNames, 1, np)
           /\ open_data_providers = SubSeq(OpenDataNames, 1, no)
           /\ marketplace_provider \in
                  IF np + no < MaxProviders THEN {None, Some(MarketplaceName)} ELSE {None}
    /\ aggregated = NoResult
    /\ apc = "service"
    /\ step = 0
    /\ last = NoResult

\* the answers that differ in the value they have for the field: none, a
\* record or patch without the field, and one per value
TierLegacyOutcomes ==
    {out \in LegacyOutcomes(focus) :
        out.kind = "none" \/ (out.kind = "data" /\ out.data.meta = EmptyMeta)}

TierProviderOutcomes(name, tier) ==
    {out \in ProviderOutcomes(name, tier, focus) :
        \/ out.kind \in {"raise", "none"}
        \/ out.kind = "result" /\ out.result.raw_payload = None}

\* what the providers of the service do during the call
TierOuts ==
    [primary : [1..Len(primary_adapters) -> TierLegacyOutcomes],
     open_data : { outs \in [1..Len(open_data_providers) ->
                                UNION {TierProviderOutcomes(open_data_providers[k],
                                                            "open_data")
                                       : k \in 1..Len(open_data_providers)}] :
                     \A k \in 1..Len(open_data_providers) :
                         outs[k] \in TierProviderOutcomes(open_data_providers[k],
                                                          "open_data") },
     marketplace : IF marketplace_provider = None THEN {[kind |-> "none"]}
                   ELSE TierProviderOutcomes(MarketplaceName, "marketplace")]

\* service.aggregate(address, existing=existing), from entry to return or raise
AggregateWhole ==
    /\ apc = "service"
    /\ service_calls = <<>>
    /\ \E outs \in TierOuts :
        LET service == [primary_adapters |-> primary_adapters,
                        open_data_providers |-> open_data_providers,
                        marketplace_provider |-> marketplace_provider]
            done == aggregate(service, Addr1, existing, outs)
        IN  /\ aggregated' = IF done.status = "ok" THEN done ELSE aggregated
            /\ apc' = IF done.status = "ok" THEN "returned" ELSE "raised"
            /\ service_calls' = <<[responses |-> outs, returned |-> done]>>
    /\ UNCHANGED <<focus, existing, primary_adapters, open_data_providers,
                   marketplace_provider, step, last, mergeVars, cacheVars, concVars,
                   repoVars, fetchVars, retryVars, hudVars>>

TiersNext == AggregateWhole

SpecTiers == TiersInit /\ [][TiersNext]_vars

\* the value a legacy provider's answer has for a field, None when it has none
PrimaryValue(out, f) == IF out.kind = "data" THEN out.data[f] ELSE None

\* the value an open-data or marketplace answer has for a field
PatchValue(out, f) ==
    IF out.kind = "result" /\ out.result.property_data # None
    THEN out.result.property_data[1][f] ELSE None

\* the value of the last entry of outs that has the field
RECURSIVE LastValue(_, _)
LastValue(outs, f) ==
    IF outs = <<>> THEN None
    ELSE IF PrimaryValue(outs[Len(outs)], f) # None THEN PrimaryValue(outs[Len(outs)], f)
    ELSE LastValue(SubSeq(outs, 1, Len(outs) - 1), f)

\* the value of the first entry of outs that has the field
RECURSIVE FirstValue(_, _)
FirstValue(outs, f) ==
    IF outs = <<>> THEN None
    ELSE IF PatchValue(outs[1], f) # None THEN PatchValue(outs[1], f)
    ELSE FirstValue(Tail(outs), f)

\* the value claim C26 names for a field, as the providers reported it
TierValue(outs, f) ==
    IF LastValue(outs.primary, f) # None THEN LastValue(outs.primary, f)
    ELSE IF existing # NoResult /\ existing[f] # None THEN existing[f]
    ELSE IF FirstValue(outs.open_data, f) # None THEN FirstValue(outs.open_data, f)
    ELSE PatchValue(outs.marketplace, f)

\* C26: for each of the nine fields the value aggregate returns is the value
\* of the last primary provider whose patch has it non-null, otherwise the
\* existing snapshot's value, otherwise the value of the first open-data
\* provider supplying it, otherwise the marketplace provider's value,
\* otherwise null (a value being held as PropertyData holds it).
C26_TierOrder ==
    (apc = "returned" /\ service_calls # <<>>)
        => \A f \in CanonicalFields :
               aggregated[f] = Stored(f, TierValue(service_calls[1].responses, f))

\* two primary providers gave different values and the second one's is returned
C26_Witness ==
    /\ apc = "returned"
    /\ service_calls # <<>>
    /\ Len(primary_adapters) = 2
    /\ PrimaryValue(service_calls[1].responses.primary[1], focus) # None
    /\ PrimaryValue(service_calls[1].responses.primary[2], focus) # None
    /\ PrimaryValue(service_calls[1].responses.primary[1], focus)
           # PrimaryValue(service_calls[1].responses.primary[2], focus)
    /\ aggregated[focus] = PrimaryValue(service_calls[1].responses.primary[2], focus)
    /\ Len(open_data_providers) = 1
    /\ PatchValue(service_calls[1].responses.open_data[1], focus) # None

\* C27: applying the result of an open-data or marketplace provider never
\* changes the value of a metadata key already present in the running
\* snapshot, it only adds keys that were absent (the benchmark list under
\* 'rent_benchmarks', which every tier extends, is left aside).
C27_MetaGapFill ==
    [][ (apc \in {"open_data", "marketplace"} /\ apc' # "raised")
            => \A key \in DOMAIN aggregated.meta \ {<<"rent_benchmarks">>} :
                   /\ key \in DOMAIN aggregated'.meta
                   /\ aggregated'.meta[key] = aggregated.meta[key] ]_vars

\* C28: every SourceAttribution appended for a provider lists only fields
\* whose value in the snapshot right after that provider's step is the value
\* that provider supplied; a field whose existing value was kept under the
\* gap-filling policy is not attributed to the provider.
C28_ProvenanceTruthful ==
    (last # NoResult /\ last.fetched = "result" /\ apc # "raised")
        => \A k \in 1..Len(result_provenance(last.result[1])) :
               LET attribution == result_provenance(last.result[1])[k]
               IN  \A n \in 1..Len(attribution.fields) :
                       aggregated[attribution.fields[n]]
                           = Stored(attribution.fields[n],
                                    last.result[1].property_data[1][attribution.fields[n]])

\* the call passed records to merge_property_records and returned the merge
BuiltFromRecords(entry) ==
    /\ entry.status = "ok"
    /\ entry.records # <<>>
    /\ merge_property_records(entry.records).status = "ok"

\* C29: every snapshot that fetch_property(a) builds from provider records is
\* persisted under, and returned with, the normalized request address: all
\* records it passes to merge_property_records carry that address, and
\* repository.get_property(normalize_address(a)) then returns the snapshot.
C29_SnapshotUnderRequestAddress ==
    \A i \in 1..Len(fetch_log) :
        BuiltFromRecords(fetch_log[i])
            => /\ \A k \in 1..Len(fetch_log[i].records) :
                      fetch_log[i].records[k].address = normalize_address(fetch_env.address)
               /\ fetch_log[i].returned.address = normalize_address(fetch_env.address)
               /\ fetch_log[i].stored # NoResult
               /\ \A f \in CanonicalFields :
                      fetch_log[i].stored[f] = fetch_log[i].returned[f]

\* the part of a returned snapshot that two calls are compared on
ReturnedView(r) ==
    IF r = NoResult THEN NoResult
    ELSE [vals |-> [f \in CanonicalFields |-> r[f]],
          address |-> r.address,
          sources |-> r.sources]

\* C30: fetch_property is idempotent when the providers are unchanged: two
\* calls in succession for the same address, with every provider returning
\* the same data both times, return records with equal values for the nine
\* fields, an equal address and an equal sources list.
C30_FetchIdempotent ==
    \A i \in 1..(Len(fetch_log) - 1) :
        ( /\ fetch_log[i].outs = fetch_log[i + 1].outs
          /\ fetch_log[i].status = "ok"
          /\ fetch_log[i + 1].status = "ok" )
            => ReturnedView(fetch_log[i].returned) = ReturnedView(fetch_log[i + 1].returned)

====
